---------------------------- MODULE Spec2Model ----------------------------
(***************************************************************************)
(* A model of the rlox tree-walking interpreter: the recursive-descent     *)
(* parser (src/parser.rs), the static resolver (src/resolver.rs), the      *)
(* interpreter (src/interpreter/mod.rs, src/interpreter/environments.rs),  *)
(* the environment chain (src/environment.rs) and the object model         *)
(* (src/tokens/lox_callable.rs, src/tokens/lox_instance.rs).               *)
(*                                                                         *)
(* A run takes a program (a sequence of lexemes), parses it, resolves it   *)
(* and interprets it one top-level statement per step.  Environments and   *)
(* instances are Rc<RefCell<..>> cells in the source; here they are cells  *)
(* of two heaps addressed by index, so that sharing is sharing.            *)
(***************************************************************************)
EXTENDS Integers, Sequences, FiniteSets, TLC

VARIABLES
    source,      \* the program text, as a sequence of lexemes
    phase,       \* where the run is: scanned, parsed, resolved, running, ...
    parser,      \* Parser { tokens, current_id }
    statements,  \* the Vec<Stmt> that parse returned
    locals,      \* the Locals that resolve_locals returned
    interp,      \* the Interpreter: environments, heaps, output, position
    errors,      \* the Vec<String> of the failing stage
    scanner      \* the Scanner { start, current, line } and its Vec<Token>

vars == <<source, phase, parser, statements, locals, interp, errors, scanner>>

(***************************************************************************)
(* Bounds of the model.                                                    *)
(***************************************************************************)
\* how many driver statements follow a program's prelude
MaxDriver == 3
\* how many statements and expressions one run may execute before it is cut
MaxFuel == 400
\* how deep a comparison of two values follows their cells
MaxEqDepth == 4
\* how many fractional digits a quotient may have before the run is cut
MaxScale == 3

(***************************************************************************)
(* Runtime values: enum Literal.                                           *)
(***************************************************************************)
Nil == [kind |-> "Nil"]
Boolean(b) == [kind |-> "Boolean", b |-> b]
\* Literal::Number(Decimal): the mantissa n and the scale e, the value n / 10^e
Decimal(n, e) == [kind |-> "Number", n |-> n, e |-> e]
Number(n) == Decimal(n, 0)
String(s) == [kind |-> "String", s |-> s]
CallableLit(c) == [kind |-> "Callable", c |-> c]
ClassInstance(ref) == [kind |-> "ClassInstance", ref |-> ref]

\* the empty BTreeMap / HashMap
EmptyMap == [k \in {} |-> Nil]
\* map with key k set to v (BTreeMap::insert)
MapInsert(m, k, v) == [x \in (DOMAIN m) \cup {k} |-> IF x = k THEN v ELSE m[x]]

(***************************************************************************)
(* Tokens.  A program is written as a sequence of lexemes; Tokenize gives  *)
(* each lexeme the token type the scanner gives it.                        *)
(***************************************************************************)
Token(token_type, lexeme, literal) ==
    [token_type |-> token_type, lexeme |-> lexeme, literal |-> literal]

KEYWORDS ==
    [and |-> "And", class |-> "Class", else |-> "Else", false |-> "False",
     for |-> "For", fun |-> "Fun", if |-> "If", nil |-> "Nil", or |-> "Or",
     print |-> "Print", return |-> "Return", super |-> "Super",
     this |-> "This", true |-> "True", var |-> "Var", while |-> "While"]

Punctuation ==
    ("(" :> "LeftParen") @@ (")" :> "RightParen") @@ ("{" :> "LeftBrace") @@
    ("}" :> "RightBrace") @@ ("," :> "Comma") @@ ("." :> "Dot") @@
    ("-" :> "Minus") @@ ("+" :> "Plus") @@ (";" :> "Semicolon") @@
    ("*" :> "Star") @@ ("/" :> "Slash") @@ ("!" :> "Bang") @@
    ("!=" :> "BangEqual") @@ ("=" :> "Equal") @@ ("==" :> "EqualEqual") @@
    ("<" :> "Less") @@ ("<=" :> "LessEqual") @@ (">" :> "Greater") @@
    (">=" :> "GreaterEqual")

\* the characters of the number lexemes the programs of this model use
NumberLexemes ==
    ("0" :> <<"0">>) @@ ("1" :> <<"1">>) @@ ("2" :> <<"2">>) @@
    ("3" :> <<"3">>) @@ ("5" :> <<"5">>) @@ ("7" :> <<"7">>) @@
    ("10" :> <<"1", "0">>) @@ ("0.1" :> <<"0", ".", "1">>) @@
    ("0.2" :> <<"0", ".", "2">>) @@ ("0.3" :> <<"0", ".", "3">>) @@
    ("0.5" :> <<"0", ".", "5">>) @@ ("1.5" :> <<"1", ".", "5">>) @@
    ("0.25" :> <<"0", ".", "2", "5">>) @@ ("0.30" :> <<"0", ".", "3", "0">>)

DigitValue ==
    ("0" :> 0) @@ ("1" :> 1) @@ ("2" :> 2) @@ ("3" :> 3) @@ ("4" :> 4) @@
    ("5" :> 5) @@ ("6" :> 6) @@ ("7" :> 7) @@ ("8" :> 8) @@ ("9" :> 9)

RECURSIVE DigitsValue(_)
\* the number that a sequence of digits spells
DigitsValue(digits) ==
    IF digits = <<>> THEN 0
    ELSE 10 * DigitsValue(SubSeq(digits, 1, Len(digits) - 1))
         + DigitValue[digits[Len(digits)]]

\* the Decimal that the text of a number token denotes: its digits are the
\* mantissa, the digits after the point are the scale
parse_number_text(text) ==
    LET point == {i \in 1..Len(text) : text[i] = "."}
        digits == SelectSeq(text, LAMBDA c : c # ".")
    IN  Decimal(DigitsValue(digits),
                IF point = {} THEN 0 ELSE Len(text) - (CHOOSE i \in point : TRUE))

\* the string lexemes the programs of this model use, with their contents
StringLexemes ==
    ("\"\"" :> <<>>) @@ ("\"A\"" :> <<"A">>) @@ ("\"B\"" :> <<"B">>) @@
    ("\"outer\"" :> <<"o", "u", "t", "e", "r">>) @@
    ("\"body\"" :> <<"b", "o", "d", "y">>)

scan_token(lexeme) ==
    IF lexeme \in DOMAIN Punctuation THEN Token(Punctuation[lexeme], lexeme, Nil)
    ELSE IF lexeme \in DOMAIN StringLexemes
    THEN Token("String", lexeme, String(StringLexemes[lexeme]))
    ELSE IF lexeme \in DOMAIN NumberLexemes
    THEN Token("Number", lexeme, parse_number_text(NumberLexemes[lexeme]))
    ELSE IF lexeme \in DOMAIN KEYWORDS THEN Token(KEYWORDS[lexeme], lexeme, Nil)
    ELSE Token("Identifier", lexeme, Nil)

scan_tokens(src) ==
    [i \in 1..Len(src) |-> scan_token(src[i])] \o <<Token("Eof", "", Nil)>>


(***************************************************************************)
(* The AST: the node types build.rs generates.  Every node carries an id.  *)
(***************************************************************************)
AssignExpr(id, name, value) ==
    [type |-> "Assign", id |-> id, name |-> name, value |-> value]
BinaryExpr(id, left, operator, right) ==
    [type |-> "Binary", id |-> id, left |-> left, operator |-> operator,
     right |-> right]
CallExpr(id, callee, arguments) ==
    [type |-> "Call", id |-> id, callee |-> callee, arguments |-> arguments]
GetExpr(id, object, name) ==
    [type |-> "Get", id |-> id, object |-> object, name |-> name]
GroupingExpr(id, expression) ==
    [type |-> "Grouping", id |-> id, expression |-> expression]
LiteralExpr(id, value) == [type |-> "Literal", id |-> id, value |-> value]
LogicalExpr(id, left, operator, right) ==
    [type |-> "Logical", id |-> id, left |-> left, operator |-> operator,
     right |-> right]
SetExpr(id, object, name, value) ==
    [type |-> "Set", id |-> id, object |-> object, name |-> name,
     value |-> value]
SuperExpr(id, keyword, method) ==
    [type |-> "Super", id |-> id, keyword |-> keyword, method |-> method]
ThisExpr(id, keyword) == [type |-> "This", id |-> id, keyword |-> keyword]
UnaryExpr(id, operator, right) ==
    [type |-> "Unary", id |-> id, operator |-> operator, right |-> right]
VariableExpr(id, name) == [type |-> "Variable", id |-> id, name |-> name]

BlockStmt(id, stmts) == [type |-> "Block", id |-> id, statements |-> stmts]
\* superclass is an Option<VariableExpr>: <<>> or <<v>>
ClassStmt(id, name, superclass, methods) ==
    [type |-> "Class", id |-> id, name |-> name, superclass |-> superclass,
     methods |-> methods]
ExpressionStmt(id, expression) ==
    [type |-> "Expression", id |-> id, expression |-> expression]
FunctionStmt(id, name, params, body) ==
    [type |-> "Function", id |-> id, name |-> name, params |-> params,
     body |-> body]
IfStmt(id, condition, then_branch, else_branch) ==
    [type |-> "If", id |-> id, condition |-> condition,
     then_branch |-> then_branch, else_branch |-> else_branch]
PrintStmt(id, expression) ==
    [type |-> "Print", id |-> id, expression |-> expression]
ReturnStmt(id, value) == [type |-> "Return", id |-> id, value |-> value]
VarStmt(id, name, initializer) ==
    [type |-> "Var", id |-> id, name |-> name, initializer |-> initializer]
WhileStmt(id, condition, body) ==
    [type |-> "While", id |-> id, condition |-> condition, body |-> body]

\* stmt::noop and expr::nil, as parser.rs calls them (with an id)
noop(id) == BlockStmt(id, <<>>)
nil(id) == LiteralExpr(id, Nil)

(***************************************************************************)
(* The parser.  A parser state p is [tokens, current_id]; every parsing    *)
(* function returns [ok, p, n, err]: the parser after it, and the node (or *)
(* token, or list) it produced, or the error it returned.                  *)
(***************************************************************************)
POk(p, n) == [ok |-> TRUE, p |-> p, n |-> n, err |-> ""]
PErr(p, msg) == [ok |-> FALSE, p |-> p, n |-> <<>>, err |-> msg]

\* the ? operator on a parser result: the error returns, the value goes on
PTry(a, Then(_)) == IF ~a.ok THEN a ELSE Then(a)

\* the limit of parameters and of arguments
MaxParams == 255

\* gen_id that hands out the same id every time
gen_id_fixed(p) == 0

\* gen_id returns current_id and increments it
gen_id(p) == p.current_id
after_gen_id(p) == [p EXCEPT !.current_id = @ + 1]

Parser_peek_is_some(p) ==
    /\ p.tokens # <<>>
    /\ Head(p.tokens).token_type # "Eof"

Parser_peek_token_type(p) ==
    IF Parser_peek_is_some(p) THEN Head(p.tokens).token_type ELSE "None"

Parser_check(p, token_types) == Parser_peek_token_type(p) \in token_types

Parser_advance(p) ==
    IF p.tokens = <<>> THEN PErr(p, "Tried to pop_front on empty dequeue")
    ELSE IF Head(p.tokens).token_type = "Eof"
    THEN PErr([p EXCEPT !.tokens = Tail(@)], "Tried to pop_front with only EOF left")
    ELSE POk([p EXCEPT !.tokens = Tail(@)], Head(p.tokens))

Parser_consume(p, token_type, message) ==
    IF Parser_check(p, {token_type}) THEN Parser_advance(p)
    ELSE PErr(p, message)

RECURSIVE Parser_declaration(_)
RECURSIVE Parser_statement(_)
RECURSIVE Parser_block_loop(_, _)
RECURSIVE Parser_expression(_)
RECURSIVE Parser_assignment(_)
RECURSIVE Parser_unary(_)
RECURSIVE Parser_call_loop(_, _)
RECURSIVE Parser_finish_call_loop(_, _)
RECURSIVE Parser_chain(_, _)
RECURSIVE Parser_function_params(_, _)
RECURSIVE Parser_methods_loop(_, _)

Parser_primary(p) ==
    PTry(Parser_advance(p), LAMBDA a :
    LET next_token == a.n
        id == gen_id(a.p)
        p1 == after_gen_id(a.p)
        tt == a.n.token_type
    IN  CASE tt = "False" -> POk(p1, LiteralExpr(id, Boolean(FALSE)))
          [] tt = "True" -> POk(p1, LiteralExpr(id, Boolean(TRUE)))
          [] tt = "Nil" -> POk(p1, LiteralExpr(id, Nil))
          [] tt = "Number" -> POk(p1, LiteralExpr(id, next_token.literal))
          [] tt = "String" -> POk(p1, LiteralExpr(id, next_token.literal))
          [] tt = "Identifier" -> POk(p1, VariableExpr(id, next_token))
          [] tt = "This" -> POk(p1, ThisExpr(id, next_token))
          [] tt = "LeftParen" ->
                PTry(Parser_expression(p1), LAMBDA e :
                PTry(Parser_consume(e.p, "RightParen", "Expect ')' after expression"),
                     LAMBDA c : POk(c.p, GroupingExpr(id, e.n))))
          [] OTHER -> PErr(p1, "Unrecognized primary token"))

Parser_finish_call_loop(p, arguments) ==
    IF Len(arguments) > MaxParams THEN PErr(p, "Can't have more than 255 arguments")
    ELSE LET tt == Parser_peek_token_type(p) IN
         CASE tt = "Comma" ->
                PTry(Parser_advance(p), LAMBDA a :
                     Parser_finish_call_loop(a.p, arguments))
           [] tt = "RightParen" -> POk(p, arguments)
           [] OTHER ->
                PTry(Parser_expression(p), LAMBDA e :
                     Parser_finish_call_loop(e.p, Append(arguments, e.n)))

Parser_finish_call(p, callee) ==
    PTry(Parser_finish_call_loop(p, <<>>), LAMBDA l :
    PTry(Parser_consume(l.p, "RightParen", "Expect ')' after arguments."), LAMBDA c :
         POk(after_gen_id(c.p), CallExpr(gen_id(c.p), callee, l.n))))

Parser_call_loop(p, expr) ==
    LET tt == Parser_peek_token_type(p) IN
    CASE tt = "LeftParen" ->
           PTry(Parser_advance(p), LAMBDA a :
           PTry(Parser_finish_call(a.p, expr), LAMBDA f :
                Parser_call_loop(f.p, f.n)))
      [] tt = "Dot" ->
           PTry(Parser_advance(p), LAMBDA a :
           PTry(Parser_consume(a.p, "Identifier", "Expect property name after '.'"),
                LAMBDA name :
                Parser_call_loop(after_gen_id(name.p),
                                 GetExpr(gen_id(name.p), expr, name.n))))
      [] OTHER -> POk(p, expr)

Parser_call(p) ==
    PTry(Parser_primary(p), LAMBDA e : Parser_call_loop(e.p, e.n))

Parser_unary(p) ==
    IF ~Parser_check(p, {"Bang", "Minus"}) THEN Parser_call(p)
    ELSE PTry(Parser_advance(p), LAMBDA operator :
         PTry(Parser_unary(operator.p), LAMBDA right :
              POk(after_gen_id(right.p),
                  UnaryExpr(gen_id(right.p), operator.n, right.n))))

\* the operators of each binary level of the grammar
ChainOperators ==
    [or |-> {"Or"}, and |-> {"And"},
     equality |-> {"BangEqual", "EqualEqual"},
     comparison |-> {"Greater", "GreaterEqual", "Less", "LessEqual"},
     term |-> {"Plus", "Minus"}, factor |-> {"Slash", "Star"}]

\* the level of the grammar that parses the operands of a level
OperandLevel ==
    [or |-> "and", and |-> "equality", equality |-> "comparison",
     comparison |-> "term", term |-> "factor", factor |-> "unary"]

\* the operand of a level is the next level of the grammar
Parser_operand(p, level) ==
    IF OperandLevel[level] = "unary" THEN Parser_unary(p)
    ELSE Parser_chain(p, OperandLevel[level])

RECURSIVE Parser_chain_loop(_, _, _)
\* while self.check(operators) { operator; right operand; new node }
Parser_chain_loop(p, expression, level) ==
    IF ~Parser_check(p, ChainOperators[level]) THEN POk(p, expression)
    ELSE PTry(Parser_advance(p), LAMBDA operator :
         PTry(Parser_operand(operator.p, level), LAMBDA right :
              Parser_chain_loop(after_gen_id(right.p),
                  IF level \in {"or", "and"}
                  THEN LogicalExpr(gen_id(right.p), expression, operator.n, right.n)
                  ELSE BinaryExpr(gen_id(right.p), expression, operator.n, right.n),
                  level)))

Parser_chain(p, level) ==
    PTry(Parser_operand(p, level), LAMBDA first :
         Parser_chain_loop(first.p, first.n, level))

Parser_factor(p) == Parser_chain(p, "factor")
Parser_term(p) == Parser_chain(p, "term")
Parser_comparison(p) == Parser_chain(p, "comparison")
Parser_equality(p) == Parser_chain(p, "equality")
Parser_and(p) == Parser_chain(p, "and")
Parser_or(p) == Parser_chain(p, "or")

\* assignment that takes any expression as its target: what is not a Get is
\* assigned by the lexeme of the operator token
Parser_assignment_any(p) ==
    PTry(Parser_or(p), LAMBDA expr :
    IF ~Parser_check(expr.p, {"Equal"}) THEN expr
    ELSE PTry(Parser_advance(expr.p), LAMBDA a :
         PTry(Parser_assignment(a.p), LAMBDA value :
              CASE expr.n.type = "Get" ->
                     POk(after_gen_id(value.p),
                         SetExpr(gen_id(value.p), expr.n.object, expr.n.name,
                                 value.n))
                [] OTHER ->
                     POk(after_gen_id(value.p),
                         AssignExpr(gen_id(value.p), a.n, value.n)))))

Parser_assignment(p) ==
    PTry(Parser_or(p), LAMBDA expr :
    IF ~Parser_check(expr.p, {"Equal"}) THEN expr
    ELSE PTry(Parser_advance(expr.p), LAMBDA a :
         PTry(Parser_assignment(a.p), LAMBDA value :
              CASE expr.n.type = "Get" ->
                     POk(after_gen_id(value.p),
                         SetExpr(gen_id(value.p), expr.n.object, expr.n.name,
                                 value.n))
                [] expr.n.type = "Variable" ->
                     POk(after_gen_id(value.p),
                         AssignExpr(gen_id(value.p), expr.n.name, value.n))
                [] OTHER -> PErr(value.p, "Invalid assignment target."))))

Parser_expression(p) == Parser_assignment(p)

Parser_expression_statement(p) ==
    PTry(Parser_expression(p), LAMBDA expression :
    PTry(Parser_consume(expression.p, "Semicolon", "Expect ';' after expression."),
         LAMBDA c :
         POk(after_gen_id(c.p), ExpressionStmt(gen_id(c.p), expression.n))))

Parser_print_statement(p) ==
    PTry(Parser_expression(p), LAMBDA value :
    PTry(Parser_consume(value.p, "Semicolon", "Expect ';' after value."), LAMBDA c :
         POk(after_gen_id(c.p), PrintStmt(gen_id(c.p), value.n))))

Parser_return_statement(p) ==
    PTry(IF Parser_peek_token_type(p) = "Semicolon"
         THEN POk(after_gen_id(p), nil(gen_id(p)))
         ELSE Parser_expression(p), LAMBDA value :
    PTry(Parser_consume(value.p, "Semicolon", "Expect ';' return statement value."),
         LAMBDA c :
         POk(after_gen_id(c.p), ReturnStmt(gen_id(c.p), value.n))))

Parser_var_declaration(p) ==
    PTry(Parser_consume(p, "Identifier", "Expect variable name."), LAMBDA name :
    PTry(IF Parser_check(name.p, {"Equal"})
         THEN Parser_expression(Parser_advance(name.p).p)
         ELSE POk(after_gen_id(name.p), nil(gen_id(name.p))), LAMBDA initializer :
    PTry(Parser_consume(initializer.p, "Semicolon",
                        "Expect ';' after variable declaration"), LAMBDA c :
         POk(after_gen_id(c.p), VarStmt(gen_id(c.p), name.n, initializer.n)))))

\* while self.peek().is_some() && !self.check(&[RightBrace]) { declaration }
Parser_block_loop(p, stmts) ==
    IF Parser_peek_is_some(p) /\ ~Parser_check(p, {"RightBrace"})
    THEN PTry(Parser_declaration(p), LAMBDA d :
              Parser_block_loop(d.p, Append(stmts, d.n)))
    ELSE POk(p, stmts)

Parser_block(p) ==
    PTry(Parser_block_loop(p, <<>>), LAMBDA l :
    PTry(Parser_consume(l.p, "RightBrace", "Expect '}' after block."), LAMBDA c :
         POk(c.p, l.n)))

Parser_while_statement(p) ==
    PTry(Parser_consume(p, "LeftParen", "Expect '(' after 'while'."), LAMBDA l :
    PTry(Parser_expression(l.p), LAMBDA condition :
    PTry(Parser_consume(condition.p, "RightParen",
                        "Expect ')' after while condition."), LAMBDA r :
    PTry(Parser_statement(r.p), LAMBDA body :
         POk(after_gen_id(body.p),
             WhileStmt(gen_id(body.p), condition.n, body.n))))))

Parser_if_statement(p) ==
    PTry(Parser_consume(p, "LeftParen", "Expect '(' after 'if'."), LAMBDA l :
    PTry(Parser_expression(l.p), LAMBDA condition :
    PTry(Parser_consume(condition.p, "RightParen",
                        "Expect ')' after if condition."), LAMBDA r :
    PTry(Parser_statement(r.p), LAMBDA then_branch :
    PTry(IF Parser_peek_token_type(then_branch.p) = "Else"
         THEN Parser_statement(Parser_advance(then_branch.p).p)
         ELSE POk(after_gen_id(then_branch.p), noop(gen_id(then_branch.p))),
         LAMBDA else_branch :
         POk(after_gen_id(else_branch.p),
             IfStmt(gen_id(else_branch.p), condition.n, then_branch.n,
                    else_branch.n)))))))

\* the initializer clause of a for statement
Parser_for_initializer(p) ==
    LET t1 == Parser_peek_token_type(p) IN
    CASE t1 = "Semicolon" ->
           POk(after_gen_id(Parser_advance(p).p), noop(gen_id(Parser_advance(p).p)))
      [] t1 = "Var" -> Parser_var_declaration(Parser_advance(p).p)
      [] OTHER -> Parser_expression_statement(p)

\* for_statement that puts the increment in front of the body
Parser_for_statement_increment_first(p) ==
    PTry(Parser_consume(p, "LeftParen", "Expect '(' after 'for'."), LAMBDA l :
    PTry(Parser_for_initializer(l.p), LAMBDA initializer :
    PTry(IF Parser_peek_token_type(initializer.p) = "Semicolon"
         THEN POk(after_gen_id(initializer.p), nil(gen_id(initializer.p)))
         ELSE Parser_expression(initializer.p), LAMBDA condition :
    PTry(Parser_consume(condition.p, "Semicolon",
                        "Expect ';' after 'for' condition."), LAMBDA s :
    PTry(IF Parser_peek_token_type(s.p) = "RightParen"
         THEN POk(after_gen_id(s.p), nil(gen_id(s.p)))
         ELSE Parser_expression(s.p), LAMBDA increment :
    PTry(Parser_consume(increment.p, "RightParen",
                        "Expect ')' after 'for' clauses."), LAMBDA r :
    PTry(Parser_statement(r.p), LAMBDA original_body :
    LET id0 == original_body.p.current_id IN
    POk([original_body.p EXCEPT !.current_id = id0 + 4],
        BlockStmt(id0, <<
            initializer.n,
            WhileStmt(id0 + 1, condition.n,
                BlockStmt(id0 + 2, <<
                    ExpressionStmt(id0 + 3, increment.n),
                    original_body.n >>)) >>)))))))))

Parser_for_statement(p) ==
    PTry(Parser_consume(p, "LeftParen", "Expect '(' after 'for'."), LAMBDA l :
    PTry(Parser_for_initializer(l.p), LAMBDA initializer :
    PTry(IF Parser_peek_token_type(initializer.p) = "Semicolon"
         THEN POk(after_gen_id(initializer.p), nil(gen_id(initializer.p)))
         ELSE Parser_expression(initializer.p), LAMBDA condition :
    PTry(Parser_consume(condition.p, "Semicolon",
                        "Expect ';' after 'for' condition."), LAMBDA s :
    PTry(IF Parser_peek_token_type(s.p) = "RightParen"
         THEN POk(after_gen_id(s.p), nil(gen_id(s.p)))
         ELSE Parser_expression(s.p), LAMBDA increment :
    PTry(Parser_consume(increment.p, "RightParen",
                        "Expect ')' after 'for' clauses."), LAMBDA r :
    PTry(Parser_statement(r.p), LAMBDA original_body :
    LET id0 == original_body.p.current_id IN
    POk([original_body.p EXCEPT !.current_id = id0 + 4],
        BlockStmt(id0, <<
            initializer.n,
            WhileStmt(id0 + 1, condition.n,
                BlockStmt(id0 + 2, <<
                    original_body.n,
                    ExpressionStmt(id0 + 3, increment.n) >>)) >>)))))))))

Parser_statement(p) ==
    LET tt == Parser_peek_token_type(p) IN
    CASE tt = "For" -> Parser_for_statement(Parser_advance(p).p)
      [] tt = "If" -> Parser_if_statement(Parser_advance(p).p)
      [] tt = "Print" -> Parser_print_statement(Parser_advance(p).p)
      [] tt = "Return" -> Parser_return_statement(Parser_advance(p).p)
      [] tt = "While" -> Parser_while_statement(Parser_advance(p).p)
      [] tt = "LeftBrace" ->
           PTry(Parser_block(after_gen_id(Parser_advance(p).p)), LAMBDA b :
                POk(b.p, BlockStmt(gen_id(Parser_advance(p).p), b.n)))
      [] OTHER -> Parser_expression_statement(p)

\* the loop over the parameter list of a function
Parser_function_params(p, params) ==
    IF Len(params) > MaxParams THEN PErr(p, "Can't have more than 255 parameters.")
    ELSE LET tt == Parser_peek_token_type(p) IN
         CASE tt = "Comma" -> Parser_function_params(Parser_advance(p).p, params)
           [] tt = "Identifier" ->
                Parser_function_params(Parser_advance(p).p,
                                       Append(params, Parser_advance(p).n))
           [] tt = "RightParen" -> POk(Parser_advance(p).p, params)
           [] OTHER -> PErr(p, "Expect parameter name, comma, or right paren.")

Parser_function(p, kind) ==
    PTry(Parser_consume(p, "Identifier", "Expect function name."), LAMBDA name :
    PTry(Parser_consume(name.p, "LeftParen", "Expect '(' after function name."),
         LAMBDA l :
    PTry(Parser_function_params(l.p, <<>>), LAMBDA params :
    PTry(Parser_consume(params.p, "LeftBrace", "Expect '{' before function body"),
         LAMBDA b :
    PTry(Parser_block(b.p), LAMBDA body :
         POk(after_gen_id(body.p),
             FunctionStmt(gen_id(body.p), name.n, params.n, body.n)))))))

\* while self.peek().is_some() && !self.check_one(RightBrace) { method }
Parser_methods_loop(p, methods) ==
    IF Parser_peek_is_some(p) /\ ~Parser_check(p, {"RightBrace"})
    THEN PTry(Parser_function(p, "method"), LAMBDA f :
              Parser_methods_loop(f.p, Append(methods, f.n)))
    ELSE POk(p, methods)

\* the superclass clause of a class declaration: an Option<VariableExpr>
Parser_class_superclass(p) ==
    IF Parser_peek_token_type(p) = "Less"
    THEN PTry(Parser_consume(Parser_advance(p).p, "Identifier",
                             "Expect superclass name."), LAMBDA identifier :
              POk(after_gen_id(identifier.p),
                  <<VariableExpr(gen_id(identifier.p), identifier.n)>>))
    ELSE POk(p, <<>>)

Parser_class_declaration(p) ==
    PTry(Parser_consume(p, "Identifier", "Expect class name"), LAMBDA name :
    PTry(Parser_class_superclass(name.p), LAMBDA superclass :
    PTry(Parser_consume(superclass.p, "LeftBrace", "Expect '{' before class body"),
         LAMBDA l :
    PTry(Parser_methods_loop(l.p, <<>>), LAMBDA methods :
    PTry(Parser_consume(methods.p, "RightBrace", "Expect '}' after class body."),
         LAMBDA r :
         POk(after_gen_id(r.p),
             ClassStmt(gen_id(r.p), name.n, superclass.n, methods.n)))))))

Parser_declaration(p) ==
    LET tt == Parser_peek_token_type(p) IN
    CASE tt = "Class" -> Parser_class_declaration(Parser_advance(p).p)
      [] tt = "Fun" -> Parser_function(Parser_advance(p).p, "function")
      [] tt = "Var" -> Parser_var_declaration(Parser_advance(p).p)
      [] OTHER -> Parser_statement(p)

RECURSIVE Parser_parse_loop(_, _)
\* parse that ends at a parse error with the statements it has
Parser_parse_loop_lenient(p, stmts) ==
    IF Parser_peek_is_some(p)
    THEN IF Parser_declaration(p).ok
         THEN Parser_parse_loop(Parser_declaration(p).p,
                                Append(stmts, Parser_declaration(p).n))
         ELSE POk(Parser_declaration(p).p, stmts)
    ELSE POk(p, stmts)

\* while self.peek().is_some() { statements.push(self.declaration()?) }
Parser_parse_loop(p, stmts) ==
    IF Parser_peek_is_some(p)
    THEN PTry(Parser_declaration(p), LAMBDA d :
              Parser_parse_loop(d.p, Append(stmts, d.n)))
    ELSE POk(p, stmts)

\* parse(tokens): a Parser with current_id 0, then Parser::parse
parse(tokens) == Parser_parse_loop([tokens |-> tokens, current_id |-> 0], <<>>)

(***************************************************************************)
(* The resolver.  A resolver state r is [locals, scopes, current_function,  *)
(* current_class]; scopes is the stack of HashMap<String, bool>, innermost  *)
(* last.  Every resolving function returns [ok, r, err].                    *)
(***************************************************************************)
ROk(r) == [ok |-> TRUE, r |-> r, err |-> ""]
RErr(r, msg) == [ok |-> FALSE, r |-> r, err |-> msg]

\* the ? operator on a resolver result
RTry(a, Then(_)) == IF ~a.ok THEN a ELSE Then(a)

Scopes_begin_scope(scopes) == Append(scopes, EmptyMap)
Scopes_end_scope(scopes) ==
    IF scopes = <<>> THEN scopes ELSE SubSeq(scopes, 1, Len(scopes) - 1)

Scopes_declare(scopes, name) ==
    IF scopes = <<>> THEN scopes
    ELSE [scopes EXCEPT ![Len(scopes)] = MapInsert(@, name, FALSE)]

Scopes_define(scopes, name) ==
    IF scopes = <<>> THEN scopes
    ELSE [scopes EXCEPT ![Len(scopes)] = MapInsert(@, name, TRUE)]

Scopes_force_define(scopes, name) ==
    [scopes EXCEPT ![Len(scopes)] = MapInsert(@, name, TRUE)]

Scopes_top_contains(scopes, name) ==
    IF scopes = <<>> THEN FALSE ELSE name \in DOMAIN scopes[Len(scopes)]

\* an Option<bool>: <<>> or <<b>>, read from the innermost scope only
Scopes_get(scopes, name) ==
    IF scopes = <<>> THEN <<>>
    ELSE IF name \in DOMAIN scopes[Len(scopes)]
         THEN <<scopes[Len(scopes)][name]>>
         ELSE <<>>

Locals_resolve(l, expression, i) == MapInsert(l, expression, i)
\* an Option<usize>: <<>> or <<distance>>
Locals_get(l, expression) ==
    IF expression \in DOMAIN l THEN <<l[expression]>> ELSE <<>>

Resolver_new ==
    [locals |-> EmptyMap, scopes |-> <<>>, current_function |-> "None",
     current_class |-> "None"]

Resolver_begin_scope(r) == [r EXCEPT !.scopes = Scopes_begin_scope(@)]
Resolver_end_scope(r) == [r EXCEPT !.scopes = Scopes_end_scope(@)]
Resolver_force_define(r, name) ==
    [r EXCEPT !.scopes = Scopes_force_define(@, name)]

\* declare without the look at the innermost scope
Resolver_declare_unchecked(r, name) ==
    ROk([r EXCEPT !.scopes = Scopes_declare(@, name)])

Resolver_declare(r, name) ==
    IF Scopes_top_contains(r.scopes, name)
    THEN RErr(r, "Already a variable with this name in this scope.")
    ELSE ROk([r EXCEPT !.scopes = Scopes_declare(@, name)])

Resolver_define(r, name) == [r EXCEPT !.scopes = Scopes_define(@, name)]

\* the scopes holding name, counted from the innermost (0)
ScopeDistances(scopes, name) ==
    {i \in 0..(Len(scopes) - 1) : name \in DOMAIN scopes[Len(scopes) - i]}

\* the least of a non-empty set of distances
Innermost(found) == CHOOSE d \in found : \A e \in found : d <= e

Resolver_resolve_local(r, expression, name) ==
    IF ScopeDistances(r.scopes, name) = {} THEN ROk(r)
    ELSE ROk([r EXCEPT !.locals =
                 Locals_resolve(@, expression,
                                Innermost(ScopeDistances(r.scopes, name)))])

is_literal_nil(expr) == expr.type = "Literal" /\ expr.value.kind = "Nil"

RECURSIVE Resolver_resolve_statement(_, _)
RECURSIVE Resolver_resolve_expression(_, _)
RECURSIVE Resolver_resolve(_, _)
RECURSIVE Resolver_resolve_arguments(_, _)
RECURSIVE Resolver_declare_params(_, _)
RECURSIVE Resolver_resolve_methods(_, _)

\* for statement in statements { self.resolve_statement(statement)?; }
Resolver_resolve(r, stmts) ==
    IF stmts = <<>> THEN ROk(r)
    ELSE RTry(Resolver_resolve_statement(r, Head(stmts)), LAMBDA h :
              Resolver_resolve(h.r, Tail(stmts)))

\* for param in params { self.declare(param)?; self.define(param); }
Resolver_declare_params(r, params) ==
    IF params = <<>> THEN ROk(r)
    ELSE RTry(Resolver_declare(r, Head(params).lexeme), LAMBDA d :
              Resolver_declare_params(Resolver_define(d.r, Head(params).lexeme),
                                      Tail(params)))

\* resolve_function that leaves the kind of the function it resolved
Resolver_resolve_function_keeping(r, stmt, function_type) ==
    RTry(Resolver_declare_params(
             Resolver_begin_scope([r EXCEPT !.current_function = function_type]),
             stmt.params), LAMBDA ps :
    RTry(Resolver_resolve(ps.r, stmt.body), LAMBDA body :
         ROk(Resolver_end_scope(body.r))))

Resolver_resolve_function(r, stmt, function_type) ==
    RTry(Resolver_declare_params(
             Resolver_begin_scope([r EXCEPT !.current_function = function_type]),
             stmt.params), LAMBDA ps :
    RTry(Resolver_resolve(ps.r, stmt.body), LAMBDA body :
         ROk([Resolver_end_scope(body.r)
                EXCEPT !.current_function = r.current_function])))

Resolver_visit_block(r, stmt) ==
    RTry(Resolver_resolve(Resolver_begin_scope(r), stmt.statements), LAMBDA b :
         ROk(Resolver_end_scope(b.r)))

\* for method in methods { self.resolve_function(method, function_type)?; }
Resolver_resolve_methods(r, methods) ==
    IF methods = <<>> THEN ROk(r)
    ELSE RTry(Resolver_resolve_function(r, Head(methods),
                  IF Head(methods).name.lexeme = "init"
                  THEN "Initializer" ELSE "Method"), LAMBDA f :
              Resolver_resolve_methods(f.r, Tail(methods)))

\* the superclass part of visit_class, entered with current_class Class
Resolver_visit_superclass(r, stmt) ==
    IF stmt.superclass = <<>> THEN ROk(r)
    ELSE IF stmt.name.lexeme = stmt.superclass[1].name.lexeme
    THEN RErr(r, "A class can't inherit from itself.")
    ELSE RTry(Resolver_resolve_expression([r EXCEPT !.current_class = "Subclass"],
                                          stmt.superclass[1]), LAMBDA e :
              ROk(Resolver_define(Resolver_begin_scope(e.r), "super")))

\* the end of visit_class: the scopes it opened end, current_class comes back
Resolver_end_class(r, stmt, enclosing_class) ==
    [(IF stmt.superclass # <<>>
      THEN Resolver_end_scope(Resolver_end_scope(r))
      ELSE Resolver_end_scope(r)) EXCEPT !.current_class = enclosing_class]

Resolver_visit_class(r, stmt) ==
    RTry(Resolver_declare(r, stmt.name.lexeme), LAMBDA d :
    RTry(Resolver_visit_superclass(
             [Resolver_define(d.r, stmt.name.lexeme) EXCEPT !.current_class = "Class"],
             stmt), LAMBDA sup :
    RTry(Resolver_resolve_methods(
             Resolver_force_define(Resolver_begin_scope(sup.r), "this"),
             stmt.methods), LAMBDA ms :
         ROk(Resolver_end_class(ms.r, stmt, d.r.current_class)))))

Resolver_visit_function(r, stmt) ==
    RTry(Resolver_declare(r, stmt.name.lexeme), LAMBDA d :
         Resolver_resolve_function(Resolver_define(d.r, stmt.name.lexeme),
                                   stmt, "Function"))

Resolver_visit_if(r, stmt) ==
    RTry(Resolver_resolve_expression(r, stmt.condition), LAMBDA c :
    RTry(Resolver_resolve_statement(c.r, stmt.then_branch), LAMBDA t :
         Resolver_resolve_statement(t.r, stmt.else_branch)))

\* visit_return without the check of the enclosing function
Resolver_visit_return_unchecked(r, stmt) ==
    IF r.current_function = "Initializer" /\ ~is_literal_nil(stmt.value)
    THEN RErr(r, "Cannot return a value from an initializer.")
    ELSE Resolver_resolve_expression(r, stmt.value)

Resolver_visit_return(r, stmt) ==
    IF r.current_function = "None"
    THEN RErr(r, "Cannot return from top-level code.")
    ELSE IF r.current_function = "Initializer" /\ ~is_literal_nil(stmt.value)
    THEN RErr(r, "Cannot return a value from an initializer.")
    ELSE Resolver_resolve_expression(r, stmt.value)

\* visit_var that resolves the initializer before it declares the name
Resolver_visit_var_initializer_first(r, stmt) ==
    RTry(Resolver_resolve_expression(r, stmt.initializer), LAMBDA i :
    RTry(Resolver_declare(i.r, stmt.name.lexeme), LAMBDA d :
         ROk(Resolver_define(d.r, stmt.name.lexeme))))

Resolver_visit_var(r, stmt) ==
    RTry(Resolver_declare(r, stmt.name.lexeme), LAMBDA d :
    RTry(Resolver_resolve_expression(d.r, stmt.initializer), LAMBDA i :
         ROk(Resolver_define(i.r, stmt.name.lexeme))))

Resolver_visit_while(r, stmt) ==
    RTry(Resolver_resolve_expression(r, stmt.condition), LAMBDA c :
         Resolver_resolve_statement(c.r, stmt.body))

\* walk_stmt with the resolver as the visitor
Resolver_resolve_statement(r, stmt) ==
    CASE stmt.type = "Block" -> Resolver_visit_block(r, stmt)
      [] stmt.type = "Class" -> Resolver_visit_class(r, stmt)
      [] stmt.type = "Expression" -> Resolver_resolve_expression(r, stmt.expression)
      [] stmt.type = "Function" -> Resolver_visit_function(r, stmt)
      [] stmt.type = "If" -> Resolver_visit_if(r, stmt)
      [] stmt.type = "Print" -> Resolver_resolve_expression(r, stmt.expression)
      [] stmt.type = "Return" -> Resolver_visit_return(r, stmt)
      [] stmt.type = "Var" -> Resolver_visit_var(r, stmt)
      [] stmt.type = "While" -> Resolver_visit_while(r, stmt)

Resolver_visit_assign(r, expr) ==
    RTry(Resolver_resolve_expression(r, expr.value), LAMBDA v :
         Resolver_resolve_local(v.r, expr, expr.name.lexeme))

\* visit_binary and visit_logical: left, then right
Resolver_visit_binary(r, expr) ==
    RTry(Resolver_resolve_expression(r, expr.left), LAMBDA l :
         Resolver_resolve_expression(l.r, expr.right))

\* for arg in arguments { self.resolve_expression(arg)?; }
Resolver_resolve_arguments(r, arguments) ==
    IF arguments = <<>> THEN ROk(r)
    ELSE RTry(Resolver_resolve_expression(r, Head(arguments)), LAMBDA a :
              Resolver_resolve_arguments(a.r, Tail(arguments)))

Resolver_visit_call(r, expr) ==
    RTry(Resolver_resolve_expression(r, expr.callee), LAMBDA c :
         Resolver_resolve_arguments(c.r, expr.arguments))

Resolver_visit_set(r, expr) ==
    RTry(Resolver_resolve_expression(r, expr.value), LAMBDA v :
         Resolver_resolve_expression(v.r, expr.object))

Resolver_visit_super(r, expr) ==
    CASE r.current_class = "None" -> RErr(r, "Can't use 'super' outside of a class.")
      [] r.current_class = "Class" ->
           RErr(r, "Can't use 'super' in a class with no superclass.")
      [] OTHER -> Resolver_resolve_local(r, expr, expr.keyword.lexeme)

Resolver_visit_this(r, expr) ==
    IF r.current_class = "None"
    THEN RErr(r, "Can't use 'this' outside of a class.")
    ELSE Resolver_resolve_local(r, VariableExpr(expr.id, expr.keyword),
                                expr.keyword.lexeme)

Resolver_visit_variable(r, expr) ==
    IF Scopes_get(r.scopes, expr.name.lexeme) = <<FALSE>>
    THEN RErr(r, "Can't read local variable in its own initializer.")
    ELSE Resolver_resolve_local(r, expr, expr.name.lexeme)

\* walk_expr with the resolver as the visitor
Resolver_resolve_expression(r, expr) ==
    CASE expr.type = "Assign" -> Resolver_visit_assign(r, expr)
      [] expr.type = "Binary" -> Resolver_visit_binary(r, expr)
      [] expr.type = "Call" -> Resolver_visit_call(r, expr)
      [] expr.type = "Get" -> Resolver_resolve_expression(r, expr.object)
      [] expr.type = "Grouping" -> Resolver_resolve_expression(r, expr.expression)
      [] expr.type = "Literal" -> ROk(r)
      [] expr.type = "Logical" -> Resolver_visit_binary(r, expr)
      [] expr.type = "Set" -> Resolver_visit_set(r, expr)
      [] expr.type = "Super" -> Resolver_visit_super(r, expr)
      [] expr.type = "This" -> Resolver_visit_this(r, expr)
      [] expr.type = "Unary" -> Resolver_resolve_expression(r, expr.right)
      [] expr.type = "Variable" -> Resolver_visit_variable(r, expr)

\* resolve_locals: a new Resolver, resolve, and its locals
resolve_locals(stmts) == Resolver_resolve(Resolver_new, stmts)

(***************************************************************************)
(* The run-time store.  An interpreter state s holds                        *)
(*   envs       the Rc<RefCell<Inner>> cells of EnvRef, by address;         *)
(*              each is [enclosing, values], enclosing 0 for None           *)
(*   instances  the Rc<RefCell<Inner>> cells of LoxInstance, by address;    *)
(*              each is [class, fields]                                     *)
(*   stack      Environments.stack, the innermost environment last          *)
(*   locals     Environments.locals                                         *)
(*   out        the lines println! wrote                                    *)
(*   trace      the ids of the statements executed and expressions          *)
(*              evaluated, in order                                         *)
(*   fuel       how many more statements and expressions may be entered      *)
(* Every operation returns [s, tag, v]: tag Ok with the value v,            *)
(* SingleError or ReturnValue (enum Error), Panic for a Rust panic, or Cut  *)
(* when the fuel is spent.                                                  *)
(***************************************************************************)
Res(s, tag, v) == [s |-> s, tag |-> tag, v |-> v]
Ok(s, v) == Res(s, "Ok", v)
SingleError(s, msg, args) == Res(s, "SingleError", [msg |-> msg, args |-> args])
ReturnValue(s, v) == Res(s, "ReturnValue", v)
Panic(s, msg) == Res(s, "Panic", [msg |-> msg, args |-> <<>>])
Cut(s) == Res(s, "Cut", Nil)

\* let v = ...; in the source: the value is computed once and named
Let(v, In(_)) == In(v)

\* the ? operator on a result: what is not Ok returns, the value goes on
Try(a, Then(_)) == IF a.tag # "Ok" THEN a ELSE Then(a)

\* ---- src/environment.rs ------------------------------------------------
\* the address the next EnvRef::new / with_enclosing gets
NewEnvRef(s) == Len(s.envs) + 1

EnvRef_new(s) ==
    [s EXCEPT !.envs = Append(@, [enclosing |-> 0, values |-> EmptyMap])]

EnvRef_with_enclosing(s, enclosing) ==
    [s EXCEPT !.envs = Append(@, [enclosing |-> enclosing, values |-> EmptyMap])]

EnvRef_define(s, env, name, value) ==
    [s EXCEPT !.envs[env].values = MapInsert(@, name, value)]

\* assign_current that binds the name when the environment does not have it
EnvRef_assign_current_defining(s, env, name, value) ==
    Ok([s EXCEPT !.envs[env].values = MapInsert(@, name, value)], Nil)

EnvRef_assign_current(s, env, name, value) ==
    IF name \in DOMAIN s.envs[env].values
    THEN Ok([s EXCEPT !.envs[env].values = MapInsert(@, name, value)], Nil)
    ELSE SingleError(s, "Undefined variable", <<name>>)

RECURSIVE EnvRef_assign_at_distance(_, _, _, _, _)
EnvRef_assign_at_distance(s, env, distance, name, value) ==
    IF distance = 0 THEN EnvRef_assign_current(s, env, name, value)
    ELSE IF s.envs[env].enclosing = 0
    THEN Panic(s, "Tried to assign outside of the scope cactus")
    ELSE EnvRef_assign_at_distance(s, s.envs[env].enclosing, distance - 1,
                                   name, value)

RECURSIVE EnvRef_assign_global(_, _, _, _)
EnvRef_assign_global(s, env, name, value) ==
    IF s.envs[env].enclosing # 0
    THEN EnvRef_assign_global(s, s.envs[env].enclosing, name, value)
    ELSE EnvRef_assign_current(s, env, name, value)

\* an Option<Literal>: <<>> or <<value>>
EnvRef_get_current(s, env, name) ==
    IF name \in DOMAIN s.envs[env].values
    THEN Ok(s, <<s.envs[env].values[name]>>)
    ELSE Ok(s, <<>>)

RECURSIVE EnvRef_get_at_distance(_, _, _, _)
EnvRef_get_at_distance(s, env, distance, name) ==
    IF distance = 0 THEN EnvRef_get_current(s, env, name)
    ELSE IF s.envs[env].enclosing = 0
    THEN Panic(s, "Tried to find variable outside the scope cactus")
    ELSE EnvRef_get_at_distance(s, s.envs[env].enclosing, distance - 1, name)

RECURSIVE EnvRef_get_global(_, _, _)
EnvRef_get_global(s, env, name) ==
    IF s.envs[env].enclosing # 0
    THEN EnvRef_get_global(s, s.envs[env].enclosing, name)
    ELSE EnvRef_get_current(s, env, name)

\* ---- src/interpreter/environments.rs -----------------------------------
Environments_peek(s) == s.stack[Len(s.stack)]

Environments_push_scope(s, scope) == [s EXCEPT !.stack = Append(@, scope)]

Environments_pop_scope(s) ==
    IF s.stack = <<>> THEN s
    ELSE [s EXCEPT !.stack = SubSeq(@, 1, Len(@) - 1)]

Environments_assign(s, name, value) ==
    EnvRef_assign_current(s, Environments_peek(s), name, value)

Environments_assign_at_distance(s, distance, name, value) ==
    EnvRef_assign_at_distance(s, Environments_peek(s), distance, name, value)

\* assign_expression that binds the name in the innermost environment
Environments_assign_expression_innermost(s, expression, name, value) ==
    Ok(EnvRef_define(s, Environments_peek(s), name, value), Nil)

Environments_assign_expression(s, expression, name, value) ==
    LET d == Locals_get(s.locals, expression) IN
    IF d # <<>> THEN Environments_assign_at_distance(s, d[1], name, value)
    ELSE EnvRef_assign_global(s, Environments_peek(s), name, value)

Environments_get_at_distance(s, distance, name) ==
    EnvRef_get_at_distance(s, Environments_peek(s), distance, name)

Environments_get_global(s, name) ==
    EnvRef_get_global(s, Environments_peek(s), name)

Environments_look_up_variable(s, name, expr) ==
    Try(IF Locals_get(s.locals, expr) = <<>>
        THEN Environments_get_global(s, name)
        ELSE Environments_get_at_distance(s, Locals_get(s.locals, expr)[1], name),
        LAMBDA value :
        IF value.v = <<>>
        THEN Panic(s, "variable with name not defined")
        ELSE Ok(s, value.v[1]))

\* ---- src/tokens/lox_callable.rs, src/tokens/lox_instance.rs ------------
Function_new(body, params, env) ==
    [body |-> body, params |-> params, env |-> env, is_initializer |-> FALSE]

Function_new_initializer(body, params, env) ==
    [body |-> body, params |-> params, env |-> env, is_initializer |-> TRUE]

\* enum Callable: Class(Class), Function(Function), Native(Native)
Callable_Class(class) == [variant |-> "Class", class |-> class]
Callable_Function(f) == [variant |-> "Function", f |-> f]
Callable_Native(n) == [variant |-> "Native", n |-> n]

LoxCallable_new(name, callable) == [name |-> name, callable |-> callable]

\* the Class the interpreter builds: name, superclass (an Option<LoxInstance>:
\* <<>> or <<address>>) and methods
Class_new(name, superclass, methods) ==
    [name |-> name, superclass |-> superclass, methods |-> methods]

\* the address the next LoxInstance::new gets
NewLoxInstance(s) == Len(s.instances) + 1

LoxInstance_new(s, class) ==
    [s EXCEPT !.instances = Append(@, [class |-> class, fields |-> EmptyMap])]

\* an Option<Function>: <<>> or <<method>>
LoxInstance_find_method(s, instance, name) ==
    LET methods == s.instances[instance].class.methods IN
    IF name \in DOMAIN methods THEN <<methods[name]>> ELSE <<>>

\* bind returns the store with the new environment in it, and the function
Function_bind(s, f, instance) ==
    LET env == NewEnvRef(s)
        s1 == EnvRef_define(EnvRef_with_enclosing(s, f.env), env, "this",
                            ClassInstance(instance))
    IN  Ok(s1, Function_new(f.body, f.params, env))

\* get that looks at the methods of the class before the fields
LoxInstance_get_method_first(s, instance, name) ==
    IF LoxInstance_find_method(s, instance, name) # <<>>
    THEN Let(Function_bind(s, LoxInstance_find_method(s, instance, name)[1],
                           instance), LAMBDA b :
             Ok(b.s, CallableLit(LoxCallable_new(name, Callable_Function(b.v)))))
    ELSE IF name \in DOMAIN s.instances[instance].fields
    THEN Ok(s, s.instances[instance].fields[name])
    ELSE SingleError(s, "Undefined property", <<name>>)

LoxInstance_get(s, instance, name) ==
    IF name \in DOMAIN s.instances[instance].fields
    THEN Ok(s, s.instances[instance].fields[name])
    ELSE IF LoxInstance_find_method(s, instance, name) = <<>>
    THEN SingleError(s, "Undefined property", <<name>>)
    ELSE Let(Function_bind(s, LoxInstance_find_method(s, instance, name)[1],
                           instance), LAMBDA b :
             Ok(b.s, CallableLit(LoxCallable_new(name, Callable_Function(b.v)))))

\* set with value semantics: the write goes to a copy of the instance
LoxInstance_set_copy(s, instance, name, value) ==
    [s EXCEPT !.instances =
        Append(@, [s.instances[instance] EXCEPT !.fields =
                       MapInsert(@, name, value)])]

LoxInstance_set(s, instance, name, value) ==
    [s EXCEPT !.instances[instance].fields = MapInsert(@, name, value)]

LoxCallable_arity(callable) ==
    CASE callable.callable.variant = "Class" ->
           IF "init" \in DOMAIN callable.callable.class.methods
           THEN Len(callable.callable.class.methods["init"].params)
           ELSE 0
      [] callable.callable.variant = "Function" -> Len(callable.callable.f.params)
      [] callable.callable.variant = "Native" -> 0

\* ---- rust_decimal::Decimal, as src/tokens/mod.rs and visit_binary use it --
RECURSIVE Pow10(_)
Pow10(k) == IF k = 0 THEN 1 ELSE 10 * Pow10(k - 1)

Max(a, b) == IF a >= b THEN a ELSE b

\* the mantissa of d at the scale e, e >= d.e
Decimal_rescale(d, e) == d.n * Pow10(e - d.e)

\* addition with the drift of binary floating point: the sum of two numbers
\* with a fraction is off in a digit after the last
Decimal_add_drift(l, r) ==
    IF Max(l.e, r.e) = 0 THEN Decimal(l.n + r.n, 0)
    ELSE Decimal((Decimal_rescale(l, Max(l.e, r.e))
                  + Decimal_rescale(r, Max(l.e, r.e))) * 10 + 4,
                 Max(l.e, r.e) + 1)

\* l + r and l - r: exact, at the larger of the two scales
Decimal_add(l, r) ==
    Decimal(Decimal_rescale(l, Max(l.e, r.e)) + Decimal_rescale(r, Max(l.e, r.e)),
            Max(l.e, r.e))

Decimal_sub(l, r) ==
    Decimal(Decimal_rescale(l, Max(l.e, r.e)) - Decimal_rescale(r, Max(l.e, r.e)),
            Max(l.e, r.e))

\* l * r: exact, the scales add; a zero factor gives Decimal::ZERO
Decimal_mul(l, r) ==
    IF l.n = 0 \/ r.n = 0 THEN Decimal(0, 0)
    ELSE Decimal(l.n * r.n, l.e + r.e)

\* l.cmp(r): -1, 0 or 1, by value
Decimal_cmp(l, r) ==
    CASE Decimal_rescale(l, Max(l.e, r.e)) < Decimal_rescale(r, Max(l.e, r.e)) -> -1
      [] Decimal_rescale(l, Max(l.e, r.e)) > Decimal_rescale(r, Max(l.e, r.e)) -> 1
      [] OTHER -> 0

\* the scales at which l / r, r not zero, has no remainder
Decimal_div_scales(l, r) ==
    {e \in Max(l.e - r.e, 0)..MaxScale :
        (l.n * Pow10(e + r.e - l.e)) % r.n = 0}

\* whether l / r has more than MaxScale fractional digits
Decimal_div_inexact(l, r) == Decimal_div_scales(l, r) = {}

\* l / r, r not zero: the quotient at the least scale that holds it
Decimal_div_at(l, r, e) == Decimal((l.n * Pow10(e + r.e - l.e)) \div r.n, e)

Decimal_div(l, r) == Decimal_div_at(l, r, Innermost(Decimal_div_scales(l, r)))

\* ---- src/tokens/mod.rs: Display and PartialEq for Literal ----------------
RECURSIVE Digits(_)
\* the decimal digits of a natural number
Digits(n) ==
    LET d == <<"0", "1", "2", "3", "4", "5", "6", "7", "8", "9">>[(n % 10) + 1] IN
    IF n < 10 THEN <<d>> ELSE Append(Digits(n \div 10), d)

\* the digits of n, with zeros in front up to a length of at least k
Padded(n, k) ==
    [i \in 1..(k - Len(Digits(n))) |-> "0"] \o Digits(n)

\* the digits ds with a decimal point before the last e of them
Pointed(ds, e) ==
    IF e = 0 THEN ds
    ELSE SubSeq(ds, 1, Len(ds) - e) \o <<".">> \o SubSeq(ds, Len(ds) - e + 1, Len(ds))

\* Display for Decimal: the sign, the integer part, and all e fractional digits
Decimal_Display(d) ==
    IF d.n < 0 THEN <<"-">> \o Pointed(Padded(-d.n, d.e + 1), d.e)
    ELSE Pointed(Padded(d.n, d.e + 1), d.e)

\* Display for LoxCallable meets todo!() for a native function
Display_panics(v) == v.kind = "Callable" /\ v.c.callable.variant = "Native"

\* Display for Literal: the text, as a sequence of pieces
Display(s, v) ==
    CASE v.kind = "Nil" -> <<"nil">>
      [] v.kind = "Boolean" -> IF v.b THEN <<"true">> ELSE <<"false">>
      [] v.kind = "Callable" ->
           IF v.c.callable.variant = "Class" THEN <<"<class ", v.c.name, ">">>
           ELSE <<"<fn ", v.c.name, ">">>
      [] v.kind = "ClassInstance" ->
           <<"<instance ", s.instances[v.ref].class.name, ">">>
      [] v.kind = "Number" -> Decimal_Display(v)
      [] v.kind = "String" -> v.s

RECURSIVE Literal_eq(_, _, _, _, _)
RECURSIVE EnvRef_eq(_, _, _, _, _)
RECURSIVE LoxInstance_eq(_, _, _, _, _)

\* #[derive(PartialEq)] for Function
Function_eq(s, f, g, d, dflt) ==
    /\ f.body = g.body
    /\ f.params = g.params
    /\ EnvRef_eq(s, f.env, g.env, d, dflt)
    /\ f.is_initializer = g.is_initializer

\* #[derive(PartialEq)] for Class
Class_eq(s, a, b, d, dflt) ==
    /\ a.name = b.name
    /\ Len(a.superclass) = Len(b.superclass)
    /\ (a.superclass # <<>> =>
            LoxInstance_eq(s, a.superclass[1], b.superclass[1], d, dflt))
    /\ DOMAIN a.methods = DOMAIN b.methods
    /\ \A m \in DOMAIN a.methods :
            Function_eq(s, a.methods[m], b.methods[m], d, dflt)

\* PartialEq for Rc<RefCell<Inner>>: the same cell, or equal contents;
\* dflt is the answer when the comparison is deeper than d cells
EnvRef_eq(s, a, b, d, dflt) ==
    IF a = b THEN TRUE
    ELSE IF d = 0 THEN dflt
    ELSE /\ (s.envs[a].enclosing = 0) = (s.envs[b].enclosing = 0)
         /\ (s.envs[a].enclosing # 0 =>
                EnvRef_eq(s, s.envs[a].enclosing, s.envs[b].enclosing, d - 1, dflt))
         /\ DOMAIN s.envs[a].values = DOMAIN s.envs[b].values
         /\ \A k \in DOMAIN s.envs[a].values :
                Literal_eq(s, s.envs[a].values[k], s.envs[b].values[k], d - 1, dflt)

LoxInstance_eq(s, a, b, d, dflt) ==
    IF a = b THEN TRUE
    ELSE IF d = 0 THEN dflt
    ELSE /\ Class_eq(s, s.instances[a].class, s.instances[b].class, d - 1, dflt)
         /\ DOMAIN s.instances[a].fields = DOMAIN s.instances[b].fields
         /\ \A k \in DOMAIN s.instances[a].fields :
                Literal_eq(s, s.instances[a].fields[k],
                           s.instances[b].fields[k], d - 1, dflt)

\* #[derive(PartialEq)] for Literal
Literal_eq(s, l, r, d, dflt) ==
    IF l.kind # r.kind THEN FALSE
    ELSE CASE l.kind = "Nil" -> TRUE
           [] l.kind = "Boolean" -> l.b = r.b
           [] l.kind = "Number" -> Decimal_cmp(l, r) = 0
           [] l.kind = "String" -> l.s = r.s
           [] l.kind = "ClassInstance" -> LoxInstance_eq(s, l.ref, r.ref, d, dflt)
           [] l.kind = "Callable" ->
                /\ l.c.name = r.c.name
                /\ l.c.callable.variant = r.c.callable.variant
                /\ CASE l.c.callable.variant = "Class" ->
                          Class_eq(s, l.c.callable.class, r.c.callable.class, d, dflt)
                     [] l.c.callable.variant = "Function" ->
                          Function_eq(s, l.c.callable.f, r.c.callable.f, d, dflt)
                     [] l.c.callable.variant = "Native" ->
                          l.c.callable.n = r.c.callable.n

\* l == r: TRUE or FALSE, or the comparison does not end within MaxEqDepth
\* cells (in the source it recurses until the stack overflows)
Literal_eq_overflows(s, l, r) ==
    Literal_eq(s, l, r, MaxEqDepth, TRUE) # Literal_eq(s, l, r, MaxEqDepth, FALSE)

evaluate_truthy(v) ==
    CASE v.kind = "Nil" -> FALSE
      [] v.kind = "Boolean" -> v.b
      [] OTHER -> TRUE

\* ---- src/native.rs ------------------------------------------------------
\* define_native_functions: clock, a Native callable
define_native_functions(s, env) ==
    EnvRef_define(s, env, "clock",
                  CallableLit(LoxCallable_new("clock", Callable_Native("clock"))))

\* ---- src/interpreter/mod.rs --------------------------------------------
RECURSIVE Interpreter_execute(_, _)
RECURSIVE Interpreter_evaluate(_, _)
RECURSIVE Interpreter_execute_block(_, _)
RECURSIVE Interpreter_evaluate_arguments(_, _, _)
RECURSIVE Interpreter_call(_, _, _)
RECURSIVE Interpreter_visit_while(_, _)

\* for statement in statements { self.execute(statement)?; }
Interpreter_execute_block(s, stmts) ==
    IF stmts = <<>> THEN Ok(s, Nil)
    ELSE Try(Interpreter_execute(s, Head(stmts)), LAMBDA h :
             Interpreter_execute_block(h.s, Tail(stmts)))

\* for (param, arg) in f.params.iter().zip(arguments) { env.define(param, arg) }
RECURSIVE Interpreter_define_params(_, _, _, _)
Interpreter_define_params(s, env, params, arguments) ==
    IF params = <<>> \/ arguments = <<>> THEN s
    ELSE Interpreter_define_params(
             EnvRef_define(s, env, Head(params).lexeme, Head(arguments)),
             env, Tail(params), Tail(arguments))

\* self.environments.pop_scope() after a result; a panic or a cut run stops
\* where it is
Interpreter_pop_scope(result) ==
    IF result.tag \in {"Panic", "Cut"} THEN result
    ELSE Res(Environments_pop_scope(result.s), result.tag, result.v)

\* the Callable::Class arm of call, giving back what init returned
Interpreter_call_class_init_result(s, c, arguments) ==
    IF LoxInstance_find_method(LoxInstance_new(s, c), NewLoxInstance(s), "init") = <<>>
    THEN Ok(LoxInstance_new(s, c), ClassInstance(NewLoxInstance(s)))
    ELSE Let(Function_bind(LoxInstance_new(s, c),
                 LoxInstance_find_method(LoxInstance_new(s, c),
                                         NewLoxInstance(s), "init")[1],
                 NewLoxInstance(s)), LAMBDA function :
             Interpreter_call(function.s,
                 LoxCallable_new("init", Callable_Function(function.v)),
                 arguments))

\* the Callable::Class arm of call
Interpreter_call_class(s, c, arguments) ==
    IF LoxInstance_find_method(LoxInstance_new(s, c), NewLoxInstance(s), "init") = <<>>
    THEN Ok(LoxInstance_new(s, c), ClassInstance(NewLoxInstance(s)))
    ELSE Let(Function_bind(LoxInstance_new(s, c),
                 LoxInstance_find_method(LoxInstance_new(s, c),
                                         NewLoxInstance(s), "init")[1],
                 NewLoxInstance(s)), LAMBDA function :
         Try(Interpreter_call(function.s,
                 LoxCallable_new("init", Callable_Function(function.v)),
                 arguments), LAMBDA r :
             Ok(r.s, ClassInstance(NewLoxInstance(s)))))

\* the match of Callable::Function on the result b of the body
Interpreter_function_result(b, f) ==
    CASE b.tag = "Ok" /\ f.is_initializer ->
           Try(Environments_get_at_distance(b.s, 0, "this"), LAMBDA this :
               IF this.v = <<>>
               THEN Panic(b.s, "called Option::unwrap() on a None value")
               ELSE Ok(b.s, this.v[1]))
      [] b.tag = "Ok" -> Ok(b.s, Nil)
      [] b.tag = "ReturnValue" -> Ok(b.s, b.v)
      [] OTHER -> b

\* the body of a function, run in the environment env the store s1 holds
Interpreter_function_body(s1, env, f) ==
    Let(Interpreter_execute_block(Environments_push_scope(s1, env), f.body),
        LAMBDA b : Interpreter_pop_scope(Interpreter_function_result(b, f)))

\* the store of a call with a copy of the closure's environment in it
CopyOfClosure(s, f) == [s EXCEPT !.envs = Append(@, s.envs[f.env])]

\* the Callable::Function arm of call, run over a copy of the closure's
\* environment instead of the environment itself (capture by value)
Interpreter_call_function_by_value(s, f, arguments) ==
    Interpreter_function_body(
        Interpreter_define_params(
            EnvRef_with_enclosing(CopyOfClosure(s, f), NewEnvRef(s)),
            NewEnvRef(CopyOfClosure(s, f)), f.params, arguments),
        NewEnvRef(CopyOfClosure(s, f)), f)

\* the Callable::Function arm of call
Interpreter_call_function(s, f, arguments) ==
    Interpreter_function_body(
        Interpreter_define_params(EnvRef_with_enclosing(s, f.env), NewEnvRef(s),
                                  f.params, arguments),
        NewEnvRef(s), f)

\* call without the comparison of arity and argument count
Interpreter_call_unchecked(s, callable, arguments) ==
    CASE callable.callable.variant = "Class" ->
           Interpreter_call_class(s, callable.callable.class, arguments)
      [] callable.callable.variant = "Function" ->
           Interpreter_call_function(s, callable.callable.f, arguments)
      [] callable.callable.variant = "Native" -> Ok(s, Number(s.now))

Interpreter_call(s, callable, arguments) ==
    IF LoxCallable_arity(callable) # Len(arguments)
    THEN SingleError(s, "Expected arguments but got",
                     <<LoxCallable_arity(callable), Len(arguments)>>)
    ELSE CASE callable.callable.variant = "Class" ->
                Interpreter_call_class(s, callable.callable.class, arguments)
           [] callable.callable.variant = "Function" ->
                Interpreter_call_function(s, callable.callable.f, arguments)
           [] callable.callable.variant = "Native" -> Ok(s, Number(s.now))

Interpreter_look_up_variable(s, name, expr) ==
    Environments_look_up_variable(s, name, expr)

Interpreter_visit_assign(s, expression) ==
    Try(Interpreter_evaluate(s, expression.value), LAMBDA value :
    Try(Environments_assign_expression(value.s, expression,
                                       expression.name.lexeme, value.v), LAMBDA a :
        Ok(a.s, value.v)))

\* the match of visit_binary on (left, operator, right)
binary_operation(s, l, operator, r) ==
    LET op == operator.token_type
        nums == l.kind = "Number" /\ r.kind = "Number"
    IN  CASE nums /\ op = "Plus" -> Ok(s, Decimal_add(l, r))
          [] nums /\ op = "Minus" -> Ok(s, Decimal_sub(l, r))
          [] nums /\ op = "Slash" ->
               IF r.n = 0 THEN Panic(s, "Division by zero")
               ELSE IF Decimal_div_inexact(l, r) THEN Cut(s)
               ELSE Ok(s, Decimal_div(l, r))
          [] nums /\ op = "Star" -> Ok(s, Decimal_mul(l, r))
          [] l.kind = "String" /\ r.kind = "String" /\ op = "Plus" ->
               Ok(s, String(l.s \o r.s))
          [] nums /\ op = "Greater" -> Ok(s, Boolean(Decimal_cmp(l, r) > 0))
          [] nums /\ op = "GreaterEqual" -> Ok(s, Boolean(Decimal_cmp(l, r) >= 0))
          [] nums /\ op = "Less" -> Ok(s, Boolean(Decimal_cmp(l, r) < 0))
          [] nums /\ op = "LessEqual" -> Ok(s, Boolean(Decimal_cmp(l, r) <= 0))
          [] op \in {"EqualEqual", "BangEqual"} ->
               IF Literal_eq_overflows(s, l, r) THEN Panic(s, "stack overflow")
               ELSE Ok(s, Boolean(Literal_eq(s, l, r, MaxEqDepth, TRUE)
                                  = (op = "EqualEqual")))
          [] OTHER ->
               IF Display_panics(l) \/ Display_panics(r)
               THEN Panic(s, "not yet implemented")
               ELSE SingleError(s, "Unsupported types for binary operation",
                                <<Display(s, l), operator.lexeme, Display(s, r)>>)

\* visit_binary that evaluates the right operand first
Interpreter_visit_binary_right_first(s, expr) ==
    Try(Interpreter_evaluate(s, expr.right), LAMBDA right :
    Try(Interpreter_evaluate(right.s, expr.left), LAMBDA left :
        binary_operation(left.s, left.v, expr.operator, right.v)))

Interpreter_visit_binary(s, expr) ==
    Try(Interpreter_evaluate(s, expr.left), LAMBDA left :
    Try(Interpreter_evaluate(left.s, expr.right), LAMBDA right :
        binary_operation(right.s, left.v, expr.operator, right.v)))

\* for arg in &expr.arguments { arguments.push(self.evaluate(&arg)?); }
Interpreter_evaluate_arguments(s, exprs, arguments) ==
    IF exprs = <<>> THEN Ok(s, arguments)
    ELSE Try(Interpreter_evaluate(s, Head(exprs)), LAMBDA a :
             Interpreter_evaluate_arguments(a.s, Tail(exprs),
                                            Append(arguments, a.v)))

Interpreter_visit_call(s, expr) ==
    Try(Interpreter_evaluate(s, expr.callee), LAMBDA callee :
    Try(Interpreter_evaluate_arguments(callee.s, expr.arguments, <<>>),
        LAMBDA arguments :
        IF callee.v.kind = "Callable"
        THEN Interpreter_call(arguments.s, callee.v.c, arguments.v)
        ELSE SingleError(arguments.s,
                         "visit_call called with non function literal callee", <<>>)))

Interpreter_visit_get(s, expr) ==
    Try(Interpreter_evaluate(s, expr.object), LAMBDA object :
        IF object.v.kind = "ClassInstance"
        THEN LoxInstance_get(object.s, object.v.ref, expr.name.lexeme)
        ELSE SingleError(object.s, "Only instances have properties.", <<>>))

\* visit_logical that evaluates both operands before it looks at the left
Interpreter_visit_logical_eager(s, expr) ==
    Try(Interpreter_evaluate(s, expr.left), LAMBDA left :
    Try(Interpreter_evaluate(left.s, expr.right), LAMBDA right :
        IF evaluate_truthy(left.v) = (expr.operator.token_type = "And")
        THEN right
        ELSE Ok(right.s, left.v)))

Interpreter_visit_logical(s, expr) ==
    Try(Interpreter_evaluate(s, expr.left), LAMBDA left :
    LET truthy == evaluate_truthy(left.v)
        op == expr.operator.token_type
    IN  CASE truthy /\ op = "And" -> Interpreter_evaluate(left.s, expr.right)
          [] ~truthy /\ op = "And" -> left
          [] truthy /\ op = "Or" -> left
          [] ~truthy /\ op = "Or" -> Interpreter_evaluate(left.s, expr.right)
          [] OTHER -> SingleError(left.s, "visit_logical called with non and/or token",
                                  <<expr.operator.lexeme>>))

Interpreter_visit_set(s, expr) ==
    Try(Interpreter_evaluate(s, expr.object), LAMBDA object :
        IF object.v.kind # "ClassInstance"
        THEN SingleError(object.s, "Only instances have fields.", <<>>)
        ELSE Try(Interpreter_evaluate(object.s, expr.value), LAMBDA value :
                 Ok(LoxInstance_set(value.s, object.v.ref, expr.name.lexeme,
                                    value.v),
                    value.v)))

Interpreter_visit_this(s, expr) ==
    Interpreter_look_up_variable(s, expr.keyword.lexeme,
                                 VariableExpr(expr.id, expr.keyword))

Interpreter_visit_unary(s, expr) ==
    Try(Interpreter_evaluate(s, expr.right), LAMBDA right :
    LET op == expr.operator.token_type IN
    CASE op = "Bang" -> Ok(right.s, Boolean(~evaluate_truthy(right.v)))
      [] op = "Minus" /\ right.v.kind = "Number" ->
           Ok(right.s, Decimal_mul(right.v, Number(-1)))
      [] op = "Minus" ->
           IF Display_panics(right.v) THEN Panic(right.s, "not yet implemented")
           ELSE SingleError(right.s,
                    "Invalid attempt to perform numerical negation on non-number",
                    <<Display(right.s, right.v)>>)
      [] OTHER ->
           IF Display_panics(right.v) THEN Panic(right.s, "not yet implemented")
           ELSE SingleError(right.s, "The value does not support the unary operation",
                            <<Display(right.s, right.v), expr.operator.lexeme>>))

Interpreter_visit_variable(s, expr) ==
    Interpreter_look_up_variable(s, expr.name.lexeme, expr)

\* entering a statement or an expression: one unit of fuel, and its id traced
Enter(s, id) == [s EXCEPT !.fuel = @ - 1, !.trace = Append(@, id)]

\* walk_expr with the interpreter as the visitor
Interpreter_evaluate(s, expr) ==
    IF s.fuel = 0 THEN Cut(s) ELSE
    CASE expr.type = "Assign" -> Interpreter_visit_assign(Enter(s, expr.id), expr)
      [] expr.type = "Binary" -> Interpreter_visit_binary(Enter(s, expr.id), expr)
      [] expr.type = "Call" -> Interpreter_visit_call(Enter(s, expr.id), expr)
      [] expr.type = "Get" -> Interpreter_visit_get(Enter(s, expr.id), expr)
      [] expr.type = "Grouping" ->
           Interpreter_evaluate(Enter(s, expr.id), expr.expression)
      [] expr.type = "Literal" -> Ok(Enter(s, expr.id), expr.value)
      [] expr.type = "Logical" -> Interpreter_visit_logical(Enter(s, expr.id), expr)
      [] expr.type = "Set" -> Interpreter_visit_set(Enter(s, expr.id), expr)
      [] expr.type = "This" -> Interpreter_visit_this(Enter(s, expr.id), expr)
      [] expr.type = "Unary" -> Interpreter_visit_unary(Enter(s, expr.id), expr)
      [] expr.type = "Variable" -> Interpreter_visit_variable(Enter(s, expr.id), expr)

\* visit_block that leaves at once when the block fails or returns
Interpreter_visit_block_early(s, stmt) ==
    Let(Interpreter_execute_block(
            Environments_push_scope(EnvRef_with_enclosing(s, Environments_peek(s)),
                                    NewEnvRef(s)),
            stmt.statements),
        LAMBDA result : IF result.tag = "Ok" THEN Interpreter_pop_scope(result)
                        ELSE result)

Interpreter_visit_block(s, stmt) ==
    Interpreter_pop_scope(
        Interpreter_execute_block(
            Environments_push_scope(EnvRef_with_enclosing(s, Environments_peek(s)),
                                    NewEnvRef(s)),
            stmt.statements))

\* the Function visit_class makes of a method
Interpreter_class_method(s, method) ==
    IF method.name.lexeme = "init"
    THEN Function_new_initializer(method.body, method.params, Environments_peek(s))
    ELSE Function_new(method.body, method.params, Environments_peek(s))

\* for method in stmt.methods.iter() { ...; methods.insert(name, function); }
RECURSIVE Interpreter_class_methods(_, _, _)
Interpreter_class_methods(s, stmts, methods) ==
    IF stmts = <<>> THEN methods
    ELSE Interpreter_class_methods(s, Tail(stmts),
             MapInsert(methods, Head(stmts).name.lexeme,
                       Interpreter_class_method(s, Head(stmts))))

\* the superclass of visit_class: [s, tag, v], v an Option<LoxInstance>
Interpreter_class_superclass(s, stmt) ==
    IF stmt.superclass = <<>> THEN Ok(s, <<>>)
    ELSE Try(Interpreter_evaluate(s, stmt.superclass[1]), LAMBDA e :
             IF e.v.kind = "Callable" /\ e.v.c.callable.variant = "Class"
             THEN Ok(LoxInstance_new(e.s, e.v.c.callable.class),
                     <<NewLoxInstance(e.s)>>)
             ELSE SingleError(e.s, "Superclass must be a class.", <<>>))

\* the class of visit_class, its methods closing over the environment of s1
Interpreter_class(s1, stmt, superclass) ==
    LoxCallable_new(stmt.name.lexeme,
        Callable_Class(Class_new(stmt.name.lexeme, superclass,
            Interpreter_class_methods(s1, stmt.methods, EmptyMap))))

Interpreter_visit_class(s, stmt) ==
    Try(Interpreter_class_superclass(s, stmt), LAMBDA superclass :
    Let(EnvRef_define(superclass.s, Environments_peek(superclass.s),
                      stmt.name.lexeme, Nil), LAMBDA s1 :
        Environments_assign(s1, stmt.name.lexeme,
            CallableLit(Interpreter_class(s1, stmt, superclass.v)))))

Interpreter_visit_function(s, stmt) ==
    Ok(EnvRef_define(s, Environments_peek(s), stmt.name.lexeme,
           CallableLit(LoxCallable_new(stmt.name.lexeme,
               Callable_Function(Function_new(stmt.body, stmt.params,
                                              Environments_peek(s)))))),
       Nil)

\* if that catches the return of its branch: the statement after it runs
Interpreter_visit_if_catching(s, stmt) ==
    Try(Interpreter_evaluate(s, stmt.condition), LAMBDA condition_result :
        Let(IF evaluate_truthy(condition_result.v)
            THEN Interpreter_execute(condition_result.s, stmt.then_branch)
            ELSE Interpreter_execute(condition_result.s, stmt.else_branch),
            LAMBDA branch :
            IF branch.tag = "ReturnValue" THEN Ok(branch.s, Nil) ELSE branch))

Interpreter_visit_if(s, stmt) ==
    Try(Interpreter_evaluate(s, stmt.condition), LAMBDA condition_result :
        IF evaluate_truthy(condition_result.v)
        THEN Interpreter_execute(condition_result.s, stmt.then_branch)
        ELSE Interpreter_execute(condition_result.s, stmt.else_branch))

Interpreter_visit_print(s, stmt) ==
    Try(Interpreter_evaluate(s, stmt.expression), LAMBDA value :
        IF Display_panics(value.v) THEN Panic(value.s, "not yet implemented")
        ELSE Ok([value.s EXCEPT !.out = Append(@, Display(value.s, value.v))], Nil))

Interpreter_visit_return(s, stmt) ==
    Try(Interpreter_evaluate(s, stmt.value), LAMBDA value :
        ReturnValue(value.s, value.v))

Interpreter_visit_var(s, stmt) ==
    Try(Interpreter_evaluate(s, stmt.initializer), LAMBDA value :
        Ok(EnvRef_define(value.s, Environments_peek(s), stmt.name.lexeme, value.v),
           Nil))

\* while that executes its body before it evaluates the condition
Interpreter_visit_while_body_first(s, stmt) ==
    Try(Interpreter_execute(s, stmt.body), LAMBDA body :
    Try(Interpreter_evaluate(body.s, stmt.condition), LAMBDA condition_result :
        IF ~evaluate_truthy(condition_result.v) THEN Ok(condition_result.s, Nil)
        ELSE Interpreter_visit_while(condition_result.s, stmt)))

Interpreter_visit_while(s, stmt) ==
    Try(Interpreter_evaluate(s, stmt.condition), LAMBDA condition_result :
        IF ~evaluate_truthy(condition_result.v) THEN Ok(condition_result.s, Nil)
        ELSE Try(Interpreter_execute(condition_result.s, stmt.body), LAMBDA body :
                 Interpreter_visit_while(body.s, stmt)))

\* walk_stmt with the interpreter as the visitor
Interpreter_execute(s, stmt) ==
    IF s.fuel = 0 THEN Cut(s) ELSE
    CASE stmt.type = "Block" -> Interpreter_visit_block(Enter(s, stmt.id), stmt)
      [] stmt.type = "Class" -> Interpreter_visit_class(Enter(s, stmt.id), stmt)
      [] stmt.type = "Expression" ->
           Try(Interpreter_evaluate(Enter(s, stmt.id), stmt.expression), LAMBDA e :
               Ok(e.s, Nil))
      [] stmt.type = "Function" -> Interpreter_visit_function(Enter(s, stmt.id), stmt)
      [] stmt.type = "If" -> Interpreter_visit_if(Enter(s, stmt.id), stmt)
      [] stmt.type = "Print" -> Interpreter_visit_print(Enter(s, stmt.id), stmt)
      [] stmt.type = "Return" -> Interpreter_visit_return(Enter(s, stmt.id), stmt)
      [] stmt.type = "Var" -> Interpreter_visit_var(Enter(s, stmt.id), stmt)
      [] stmt.type = "While" -> Interpreter_visit_while(Enter(s, stmt.id), stmt)

(***************************************************************************)
(* The programs of the model.  A program is a prelude followed by at most  *)
(* MaxDriver driver statements drawn from the menu of its family.          *)
(***************************************************************************)
RECURSIVE Concat(_)
\* the lexemes of a sequence of statements, one after the other
Concat(seqs) == IF seqs = <<>> THEN <<>> ELSE Head(seqs) \o Concat(Tail(seqs))

\* the driver sequences over a menu (a sequence of statements)
Drivers(menu) == UNION {[1..n -> 1..Len(menu)] : n \in 0..MaxDriver}

Program(prelude, menu, d) == prelude \o Concat([i \in 1..Len(d) |-> menu[d[i]]])

ProgramsOf(prelude, menu) == {Program(prelude, menu, d) : d \in Drivers(menu)}

\* closures: two counters made by two calls of makeCounter
CounterPrelude ==
    <<"fun", "makeCounter", "(", ")", "{", "var", "i", "=", "0", ";",
      "fun", "count", "(", ")", "{", "i", "=", "i", "+", "1", ";",
      "return", "i", ";", "}", "return", "count", ";", "}", "var", "c",
      "=", "makeCounter", "(", ")", ";", "var", "d", "=", "makeCounter",
      "(", ")", ";">>

CounterMenu ==
    << <<"print", "c", "(", ")", ";">>,
       <<"print", "d", "(", ")", ";">> >>

CounterPrograms == ProgramsOf(CounterPrelude, CounterMenu)

\* assignment from nested blocks to a variable of the outer block
ScopingPrelude ==
    <<>>

ScopingMenu ==
    << <<"{", "var", "x", "=", "1", ";", "{", "x", "=", "2", ";", "}",
         "print", "x", ";", "}">>,
       <<"{", "var", "x", "=", "1", ";", "{", "{", "x", "=", "3", ";", "}",
         "}", "print", "x", ";", "}">>,
       <<"{", "var", "x", "=", "1", ";", "{", "{", "{", "x", "=", "5", ";",
         "}", "}", "}", "print", "x", ";", "}">> >>

ScopingPrograms == ProgramsOf(ScopingPrelude, ScopingMenu)

\* inheritance: B overrides greet and calls super.greet()
SuperPrelude ==
    <<"class", "A", "{", "greet", "(", ")", "{", "return", "\"A\"", ";",
      "}", "}", "class", "B", "<", "A", "{", "greet", "(", ")", "{",
      "return", "super", ".", "greet", "(", ")", "+", "\"B\"", ";", "}", "}">>

SuperMenu ==
    << <<"print", "B", "(", ")", ".", "greet", "(", ")", ";">> >>

SuperPrograms == ProgramsOf(SuperPrelude, SuperMenu)

\* inheritance: B inherits greet
InheritPrelude ==
    <<"class", "A", "{", "greet", "(", ")", "{", "return", "\"A\"", ";",
      "}", "}", "class", "B", "<", "A", "{", "}">>

InheritMenu ==
    << <<"print", "B", "(", ")", ".", "greet", "(", ")", ";">> >>

InheritPrograms == ProgramsOf(InheritPrelude, InheritMenu)

\* initializers: init without a return, and with a bare return
BoxPrelude ==
    <<"class", "Box", "{", "init", "(", "v", ")", "{", "this", ".", "v",
      "=", "v", ";", "}", "}", "class", "Ret", "{", "init", "(", "v", ")",
      "{", "this", ".", "v", "=", "v", ";", "return", ";", "}", "}">>

BoxMenu ==
    << <<"var", "b", "=", "Box", "(", "10", ")", ";">>,
       <<"var", "b", "=", "Ret", "(", "7", ")", ";">>,
       <<"print", "b", ".", "v", ";">>,
       <<"var", "r", "=", "b", ".", "init", "(", "5", ")", ";">> >>

BoxPrograms == ProgramsOf(BoxPrelude, BoxMenu)

\* calls with a wrong and with the right number of arguments
ArityPrelude ==
    <<"fun", "f", "(", "a", ")", "{", "print", "\"body\"", ";", "}",
      "class", "Box", "{", "init", "(", "v", ")", "{", "this", ".", "v",
      "=", "v", ";", "print", "\"body\"", ";", "}", "}", "class", "E", "{",
      "}">>

ArityMenu ==
    << <<"f", "(", ")", ";">>,
       <<"Box", "(", "1", ",", "2", ")", ";">>,
       <<"E", "(", "1", ")", ";">>,
       <<"f", "(", "1", ")", ";">> >>

ArityPrograms == ProgramsOf(ArityPrelude, ArityMenu)

\* a local variable read in its own initializer
OwnInitPrelude ==
    <<"var", "a", "=", "\"outer\"", ";">>

OwnInitMenu ==
    << <<"{", "var", "a", "=", "a", ";", "}">>,
       <<"{", "var", "a", "=", "\"outer\"", ";", "{", "var", "a", "=", "a",
         ";", "}", "}">>,
       <<"fun", "g", "(", ")", "{", "var", "a", "=", "a", ";", "}">>,
       <<"print", "a", ";">>,
       <<"{", "var", "b", "=", "a", ";", "print", "b", ";", "}">> >>

OwnInitPrograms == ProgramsOf(OwnInitPrelude, OwnInitMenu)

\* a name declared twice, in a local scope and at the top level
RedeclarePrelude ==
    <<>>

RedeclareMenu ==
    << <<"var", "a", "=", "1", ";">>,
       <<"var", "a", "=", "2", ";">>,
       <<"print", "a", ";">>,
       <<"{", "var", "a", "=", "1", ";", "var", "a", "=", "2", ";", "}">>,
       <<"fun", "g", "(", "p", ",", "p", ")", "{", "}">>,
       <<"{", "fun", "a", "(", ")", "{", "}", "class", "a", "{", "}", "}">> >>

RedeclarePrograms == ProgramsOf(RedeclarePrelude, RedeclareMenu)

\* reads of a global that may not be defined
UndefinedPrelude ==
    <<>>

UndefinedMenu ==
    << <<"print", "y", ";">>,
       <<"var", "y", "=", "1", ";">>,
       <<"print", "2", ";">> >>

UndefinedPrograms == ProgramsOf(UndefinedPrelude, UndefinedMenu)

\* return statements inside and outside of functions
ReturnPrelude ==
    <<"class", "K", "{", "m", "(", ")", "{", "return", "3", ";", "}", "}",
      "fun", "r", "(", ")", "{", "if", "(", "true", ")", "{", "return",
      "1", ";", "}", "return", "2", ";", "}">>

ReturnMenu ==
    << <<"return", "1", ";">>,
       <<"{", "return", ";", "}">>,
       <<"print", "r", "(", ")", ";">>,
       <<"print", "K", "(", ")", ".", "m", "(", ")", ";">> >>

ReturnPrograms == ProgramsOf(ReturnPrelude, ReturnMenu)

Programs ==
    CounterPrograms \cup ScopingPrograms \cup SuperPrograms \cup InheritPrograms
    \cup BoxPrograms \cup ArityPrograms \cup OwnInitPrograms
    \cup RedeclarePrograms \cup UndefinedPrograms \cup ReturnPrograms

(***************************************************************************)
(* The run of one program: parse, resolve_locals, interpret.               *)
(***************************************************************************)
\* the values the host's clock may return
ClockValues == {0, 1}

\* Interpreter::new(globals, locals), the globals holding the native
\* functions; pc is the position of interpret's loop over the statements
Interpreter_new(l) ==
    LET s0 == [envs |-> <<>>, instances |-> <<>>, stack |-> <<>>, locals |-> l,
               out |-> <<>>, trace |-> <<>>, fuel |-> 0, now |-> 0, pc |-> 1,
               panic |-> ""]
        globals == NewEnvRef(s0)
    IN  Environments_push_scope(define_native_functions(EnvRef_new(s0), globals),
                                globals)

NoInterpreter == Interpreter_new(EmptyMap)

\* Scanner::new, with the vector of tokens scan_tokens starts from
NoScanner == [start |-> 0, current |-> 0, line |-> 1, tokens |-> <<>>]

Init ==
    /\ source \in Programs
    /\ phase = "scanned"
    /\ parser = [tokens |-> <<>>, current_id |-> 0]
    /\ statements = <<>>
    /\ locals = EmptyMap
    /\ interp = NoInterpreter
    /\ scanner = NoScanner
    /\ errors = <<>>

\* parse(tokens)
Parse ==
    /\ phase = "scanned"
    /\ LET r == parse(scan_tokens(source)) IN
       /\ parser' = r.p
       /\ IF r.ok
          THEN /\ statements' = r.n
               /\ phase' = "parsed"
               /\ errors' = errors
          ELSE /\ statements' = statements
               /\ phase' = "parse_error"
               /\ errors' = <<[msg |-> r.err, args |-> <<>>]>>
    /\ UNCHANGED <<source, locals, interp, scanner>>

\* resolve_locals(&statements)
Resolve ==
    /\ phase = "parsed"
    /\ LET r == resolve_locals(statements) IN
       IF r.ok
       THEN /\ locals' = r.r.locals
            /\ phase' = "resolved"
            /\ errors' = errors
       ELSE /\ locals' = locals
            /\ phase' = "resolve_error"
            /\ errors' = <<[msg |-> r.err, args |-> <<>>]>>
    /\ UNCHANGED <<source, parser, statements, interp, scanner>>

\* the interpreter as interpret leaves it after a statement
AfterStatement(s) == [s EXCEPT !.fuel = 0, !.now = 0]

\* interpret(globals, locals, &statements): one turn of its loop
Interpret ==
    /\ phase \in {"resolved", "running"}
    /\ \E now \in ClockValues :
       LET s0 == IF phase = "resolved" THEN Interpreter_new(locals) ELSE interp IN
       IF s0.pc > Len(statements)
       THEN /\ phase' = "done"
            /\ interp' = s0
            /\ errors' = errors
       ELSE LET r == Interpreter_execute([s0 EXCEPT !.fuel = MaxFuel, !.now = now],
                                         statements[s0.pc])
            IN  CASE r.tag = "Ok" ->
                       /\ phase' = "running"
                       /\ interp' = AfterStatement([r.s EXCEPT !.pc = @ + 1])
                       /\ errors' = errors
                  [] r.tag = "ReturnValue" /\ ~Display_panics(r.v) ->
                       /\ phase' = "runtime_error"
                       /\ interp' = AfterStatement(r.s)
                       /\ errors' = <<[msg |-> "Unexpected return value",
                                       args |-> <<Display(r.s, r.v)>>]>>
                  [] r.tag = "ReturnValue" /\ Display_panics(r.v) ->
                       /\ phase' = "panic"
                       /\ interp' = AfterStatement([r.s EXCEPT !.panic =
                                                       "not yet implemented"])
                       /\ errors' = errors
                  [] r.tag = "SingleError" ->
                       /\ phase' = "runtime_error"
                       /\ interp' = AfterStatement(r.s)
                       /\ errors' = <<r.v>>
                  [] r.tag = "Panic" ->
                       /\ phase' = "panic"
                       /\ interp' = AfterStatement([r.s EXCEPT !.panic = r.v.msg])
                       /\ errors' = errors
                  [] r.tag = "Cut" ->
                       /\ phase' = "cut"
                       /\ interp' = AfterStatement(r.s)
                       /\ errors' = errors
    /\ UNCHANGED <<source, parser, statements, locals, scanner>>

Next == Parse \/ Resolve \/ Interpret

Spec == Init /\ [][Next]_vars

(***************************************************************************)
(* The properties.                                                         *)
(***************************************************************************)
IsPrefix(p, s) == Len(p) <= Len(s) /\ SubSeq(s, 1, Len(p)) = p

RECURSIVE DriverOf(_, _)
\* the menu entries whose lexemes, one after the other, are rest
DriverOf(rest, menu) ==
    IF rest = <<>> THEN <<>>
    ELSE LET k == CHOOSE k \in 1..Len(menu) : IsPrefix(menu[k], rest) IN
         <<k>> \o DriverOf(SubSeq(rest, Len(menu[k]) + 1, Len(rest)), menu)

\* the driver statements that follow the prelude in the source
DriverAfter(prelude, menu) ==
    DriverOf(SubSeq(source, Len(prelude) + 1, Len(source)), menu)

\* the interpreter that the next turn of interpret starts from
Current == IF phase = "resolved" THEN Interpreter_new(locals) ELSE interp

\* interpret is about to execute entry k of the menu; the prelude has n statements
AtDriver(programs, prelude, n, menu, k) ==
    /\ source \in programs
    /\ phase \in {"resolved", "running"}
    /\ Current.pc - n \in 1..Len(DriverAfter(prelude, menu))
    /\ DriverAfter(prelude, menu)[Current.pc - n] = k

Failed == phase \in {"parse_error", "resolve_error", "runtime_error", "panic", "cut"}

\* C1: closures capture their environment by reference: the k-th call of one
\* counter prints k, however the calls of the other counter made by a
\* separate call of makeCounter are interleaved with it, and the other
\* counter starts again at 1
C1_ClosuresCaptureByReference ==
    source \in CounterPrograms =>
        LET d == DriverAfter(CounterPrelude, CounterMenu) IN
        /\ ~Failed
        /\ Len(interp.out) <= Len(d)
        /\ phase = "done" => Len(interp.out) = Len(d)
        /\ \A i \in 1..Len(interp.out) :
               interp.out[i] = Digits(Cardinality({j \in 1..i : d[j] = d[i]}))

\* two calls of c with a call of d between them have printed 1, 1, 2
C1_Witness ==
    /\ source = Program(CounterPrelude, CounterMenu, <<1, 2, 1>>)
    /\ phase = "done"
    /\ interp.out = <<<<"1">>, <<"1">>, <<"2">>>>

\* the value that entry k of ScopingMenu assigns to x in its nested block
ScopingValue == <<2, 3, 5>>

\* C2: an assignment in a nested block, at any depth, to a variable of the
\* outer block updates the outer binding: the outer block reads the assigned
\* value after the nested block, and no nested environment binds the name
C2_NestedAssignmentUpdatesOuter ==
    source \in ScopingPrograms =>
        LET d == DriverAfter(ScopingPrelude, ScopingMenu) IN
        /\ ~Failed
        /\ Len(interp.out) <= Len(d)
        /\ phase = "done" => Len(interp.out) = Len(d)
        /\ \A i \in 1..Len(interp.out) :
               interp.out[i] = Digits(ScopingValue[d[i]])
        /\ \A e \in 2..Len(interp.envs) :
               IF interp.envs[e].enclosing = 1
               THEN \E i \in 1..Len(interp.out) :
                        interp.envs[e].values = ("x" :> Number(ScopingValue[d[i]]))
               ELSE interp.envs[e].values = EmptyMap

\* the blocks of depth 3, 1 and 2 have run and printed 5, 2 and 3
C2_Witness ==
    /\ source = Program(ScopingPrelude, ScopingMenu, <<3, 1, 2>>)
    /\ phase = "done"
    /\ interp.out = <<<<"5">>, <<"2">>, <<"3">>>>
    /\ Len(interp.envs) = 10

\* C3: class B < A with greet returning super.greet() + "B" is accepted by
\* parser and resolver and greet on an instance of B returns "AB"; a method
\* that B does not define is found in A
C3_SuperAndInheritedMethods ==
    /\ source \in SuperPrograms =>
           /\ ~Failed
           /\ \A i \in 1..Len(interp.out) : interp.out[i] = <<"A", "B">>
    /\ source \in InheritPrograms =>
           /\ ~Failed
           /\ \A i \in 1..Len(interp.out) : interp.out[i] = <<"A">>

\* the global environment of the interpreter
Globals(s) == s.envs[1].values

\* the class and the argument of the entries of BoxMenu that make an instance
BoxClass == <<"Box", "Ret">>
BoxArgument == <<10, 7>>

\* interpret is about to execute entry k of BoxMenu
AtBox(k) == AtDriver(BoxPrograms, BoxPrelude, 2, BoxMenu, k)

\* C4: calling a class whose init has no return statement, with the number
\* of arguments init takes, yields an instance of the class, and the field
\* init assigned through this is read on it with the assigned value
C4_InitializerAutoReturn ==
    [][/\ AtBox(1) =>
              /\ phase' = "running"
              /\ Globals(interp')["b"].kind = "ClassInstance"
              /\ interp'.instances[Globals(interp')["b"].ref].class.name
                     = BoxClass[1]
              /\ interp'.instances[Globals(interp')["b"].ref].fields
                     = ("v" :> Number(BoxArgument[1]))
       /\ (AtBox(3) /\ "b" \in DOMAIN Globals(Current)) =>
              /\ phase' = "running"
              /\ interp'.out = Append(interp.out,
                     Digits(interp.instances[Globals(interp)["b"].ref].fields["v"].n))
      ]_vars

\* var b = Box(10); print b.v; has printed 10
C4_Witness ==
    /\ source = Program(BoxPrelude, BoxMenu, <<1, 3>>)
    /\ phase = "done"
    /\ Globals(interp)["b"].kind = "ClassInstance"
    /\ interp.out = <<<<"1", "0">>>>

\* C5: init called on an instance, b.init(5), yields that instance, when
\* the body runs to its end and when it executes a bare return
C5_InitAlwaysYieldsThis ==
    [][(AtBox(4) /\ "b" \in DOMAIN Globals(Current)) =>
           /\ phase' = "running"
           /\ Globals(interp')["r"] = Globals(interp)["b"]
      ]_vars

\* the arity of the callee, and the number of arguments, of the entries of
\* ArityMenu that call with a wrong number of arguments
ArityExpected == <<1, 1, 0>>
ArityActual == <<0, 2, 1>>

\* interpret is about to execute entry k of ArityMenu
AtArity(k) == AtDriver(ArityPrograms, ArityPrelude, 3, ArityMenu, k)

\* C6: a call of a function or a class with a number of arguments that is
\* not its arity (for a class that of init, 0 without init) is a runtime
\* error stating both numbers; nothing of the body of the callee or of init
\* is executed, and no field and no binding changes
C6_ArityChecked ==
    [][\A k \in 1..3 : AtArity(k) =>
           /\ phase' = "runtime_error"
           /\ errors' = <<[msg |-> "Expected arguments but got",
                           args |-> <<ArityExpected[k], ArityActual[k]>>]>>
           /\ interp'.out = Current.out
           /\ interp'.envs = Current.envs
           /\ interp'.instances = Current.instances
           /\ Len(interp'.trace) = Len(Current.trace) + 3 + ArityActual[k]
      ]_vars

\* f(1) ran the body of f, and Box(1, 2) then ended with the error
C6_Witness ==
    /\ source = Program(ArityPrelude, ArityMenu, <<4, 2>>)
    /\ phase = "runtime_error"
    /\ errors = <<[msg |-> "Expected arguments but got", args |-> <<1, 2>>]>>
    /\ interp.out = <<<<"b", "o", "d", "y">>>>
    /\ interp.instances = <<>>

\* C7: a variable declaration in a local scope whose initializer reads the
\* declared name is rejected by the resolver, also when an outer binding of
\* the name exists; no statement of the program is executed, nothing printed
C7_OwnInitializerRejected ==
    (/\ source \in OwnInitPrograms
     /\ \E i \in DOMAIN DriverAfter(OwnInitPrelude, OwnInitMenu) :
            DriverAfter(OwnInitPrelude, OwnInitMenu)[i] \in {1, 2, 3}) =>
        /\ phase \in {"scanned", "parsed", "resolve_error"}
        /\ phase = "resolve_error" =>
               errors = <<[msg |-> "Can't read local variable in its own initializer.",
                           args |-> <<>>]>>
        /\ interp.out = <<>>
        /\ interp.trace = <<>>
        /\ interp = NoInterpreter

\* print a; { var a = "outer"; { var a = a; } } was rejected by the resolver
C7_Witness ==
    /\ source = Program(OwnInitPrelude, OwnInitMenu, <<4, 2>>)
    /\ phase = "resolve_error"
    /\ interp.out = <<>>

\* the value that entry k of RedeclareMenu gives to a at the top level
RedeclareValue == <<1, 2>>

\* C8: a name declared twice in one local scope (by var, fun, class or
\* parameter) is the static error 'Already a variable with this name in
\* this scope'; declared twice at the top level it is accepted, and the
\* later definition replaces the earlier one
C8_RedeclarationLocalOnly ==
    source \in RedeclarePrograms =>
        LET d == DriverAfter(RedeclarePrelude, RedeclareMenu)
            defs == {i \in 1..(interp.pc - 1) : d[i] \in {1, 2}}
        IN  IF \E i \in DOMAIN d : d[i] \in {4, 5, 6}
            THEN /\ phase \in {"scanned", "parsed", "resolve_error"}
                 /\ phase = "resolve_error" =>
                        errors = <<[msg |-> "Already a variable with this name in this scope.",
                                    args |-> <<>>]>>
            ELSE /\ phase \notin {"parse_error", "resolve_error"}
                 /\ (phase \in {"running", "done"} /\ defs # {}) =>
                        Globals(interp)["a"] = Number(RedeclareValue[
                            d[CHOOSE i \in defs : \A j \in defs : j <= i]])

\* var a = 1; var a = 2; print a; has printed 2
C8_Witness ==
    /\ source = Program(RedeclarePrelude, RedeclareMenu, <<1, 2, 3>>)
    /\ phase = "done"
    /\ interp.out = <<<<"2">>>>

\* C9: reading a name that is not resolved and not bound in the global
\* environment is a runtime error naming the variable, returned through the
\* error result of interpret, and by no other path
C9_UndefinedReadIsRuntimeError ==
    [][(/\ AtDriver(UndefinedPrograms, UndefinedPrelude, 0, UndefinedMenu, 1)
        /\ "y" \notin DOMAIN Globals(Current)) =>
           /\ phase' = "runtime_error"
           /\ Len(errors') = 1
           /\ errors'[1].args = <<"y">>
      ]_vars

\* C10: interpret of a program the resolver accepted never ends with
\* 'Unexpected return value'
C10_NoTopLevelReturnValue ==
    phase = "runtime_error" => errors[1].msg # "Unexpected return value"

\* returns in a function and in a method were executed and caught by the calls
C10_Witness ==
    /\ source = Program(ReturnPrelude, ReturnMenu, <<3, 4>>)
    /\ phase = "done"
    /\ interp.out = <<<<"1">>, <<"3">>>>

(***************************************************************************)
(* Expressions: programs that print one expression after a prelude, and    *)
(* the run of one of them.                                                  *)
(***************************************************************************)
\* a function, a class, an instance of it, and a variable for side effects
ExpressionPrelude ==
    <<"fun", "f", "(", ")", "{", "}", "class", "K", "{", "}",
      "var", "k", "=", "K", "(", ")", ";", "var", "x", "=", "0", ";">>

\* how many statements ExpressionPrelude has
ExpressionPreludeLength == Len(parse(scan_tokens(ExpressionPrelude)).n)

\* the operands of the binary expressions, one or more of every kind of value
Operands == {"nil", "true", "0", "1", "2", "\"A\"", "clock", "f", "K", "k"}

BinaryOperators == {"+", "-", "*", "/", ">", ">=", "<", "<=", "==", "!="}

\* print l o r; for every pair of operands and every operator
OperatorsPrograms ==
    {ExpressionPrelude \o <<"print", l, o, r, ";">> :
        l \in Operands, o \in BinaryOperators, r \in Operands}

\* the left operands of the logical expressions: the two falsy values, and
\* truthy values of every kind, 0 and the empty string among them
LogicalLefts == {"nil", "false", "true", "0", "1", "\"\"", "\"A\"", "f", "k"}

\* the values the right operand assigns to x, none of them the 0 x holds
LogicalRights == {"nil", "false", "1", "\"A\""}

\* print l o (x = r); print x; the right operand has a side effect on x
LogicalPrograms ==
    {ExpressionPrelude
        \o <<"print", l, o, "(", "x", "=", r, ")", ";", "print", "x", ";">> :
        l \in LogicalLefts, o \in {"and", "or"}, r \in LogicalRights}

\* print -v; for every operand
NegationPrograms ==
    {ExpressionPrelude \o <<"print", "-", v, ";">> : v \in Operands}

\* print v; for every operand
PrintPrograms ==
    {ExpressionPrelude \o <<"print", v, ";">> : v \in Operands}

\* reads of a local variable at the distance the resolver gave them: in its
\* own block, in a nested block, in a function, in a method, and in a method
\* of a class that has a superclass
ResolvedReadMenu ==
    << <<"{", "var", "a", "=", "1", ";", "print", "a", ";", "}">>,
       <<"{", "var", "a", "=", "1", ";", "{", "{", "print", "a", ";", "}", "}", "}">>,
       <<"{", "var", "a", "=", "1", ";", "fun", "g", "(", ")", "{", "return",
         "a", ";", "}", "print", "g", "(", ")", ";", "}">>,
       <<"{", "var", "a", "=", "1", ";", "class", "A", "{", "m", "(", ")", "{",
         "return", "a", ";", "}", "}", "print", "A", "(", ")", ".", "m", "(",
         ")", ";", "}">>,
       <<"{", "var", "a", "=", "1", ";", "class", "B", "<", "K", "{", "m", "(",
         ")", "{", "return", "a", ";", "}", "}", "print", "B", "(", ")", ".",
         "m", "(", ")", ";", "}">> >>

ResolvedReadPrograms ==
    {ExpressionPrelude \o ResolvedReadMenu[i] : i \in DOMAIN ResolvedReadMenu}

ExpressionPrograms ==
    OperatorsPrograms \cup LogicalPrograms \cup NegationPrograms
    \cup ResolvedReadPrograms \cup PrintPrograms

ExpressionInit ==
    /\ source \in ExpressionPrograms
    /\ phase = "scanned"
    /\ parser = [tokens |-> <<>>, current_id |-> 0]
    /\ statements = <<>>
    /\ locals = EmptyMap
    /\ interp = NoInterpreter
    /\ scanner = NoScanner
    /\ errors = <<>>

ExpressionSpec == ExpressionInit /\ [][Next]_vars

\* the lexemes that follow the prelude
Printed == SubSeq(source, Len(ExpressionPrelude) + 1, Len(source))

\* the kind of value an operand evaluates to
OperandKind ==
    [x \in Operands |->
        CASE x = "nil" -> "Nil"
          [] x = "true" -> "Boolean"
          [] x \in {"0", "1", "2"} -> "Number"
          [] x = "\"A\"" -> "String"
          [] x \in {"clock", "f", "K"} -> "Callable"
          [] x = "k" -> "ClassInstance"]

\* the text of the value an operand evaluates to
OperandText ==
    [x \in Operands |->
        CASE x \in {"nil", "true", "0", "1", "2"} -> <<x>>
          [] x = "\"A\"" -> <<"A">>
          [] x = "clock" -> <<"<fn ", "clock", ">">>
          [] x = "f" -> <<"<fn ", "f", ">">>
          [] x = "K" -> <<"<class ", "K", ">">>
          [] x = "k" -> <<"<instance ", "K", ">">>]

\* the number a number operand denotes
OperandNumber == ("0" :> 0) @@ ("1" :> 1) @@ ("2" :> 2)

BothNumbers(l, r) == OperandKind[l] = "Number" /\ OperandKind[r] = "Number"

\* the operator and operand kinds for which a binary expression has a value
BinaryDefined(l, o, r) ==
    \/ o \in {"==", "!="}
    \/ BothNumbers(l, r)
    \/ o = "+" /\ OperandKind[l] = "String" /\ OperandKind[r] = "String"

\* the text of a truth value
BooleanText(b) == IF b THEN <<"true">> ELSE <<"false">>

\* the line print writes for l o r where the claim fixes it; <<>> where it
\* only fixes that the value is a Boolean, or that it is a quotient
BinaryExpected(l, o, r) ==
    CASE BothNumbers(l, r) /\ o = "+" -> Digits(OperandNumber[l] + OperandNumber[r])
      [] BothNumbers(l, r) /\ o = "-" ->
           IF OperandNumber[l] >= OperandNumber[r]
           THEN Digits(OperandNumber[l] - OperandNumber[r])
           ELSE <<"-">> \o Digits(OperandNumber[r] - OperandNumber[l])
      [] BothNumbers(l, r) /\ o = "*" -> Digits(OperandNumber[l] * OperandNumber[r])
      [] BothNumbers(l, r) /\ o = "/" /\ OperandNumber[r] # 0
            /\ OperandNumber[l] % OperandNumber[r] = 0 ->
           Digits(OperandNumber[l] \div OperandNumber[r])
      [] BothNumbers(l, r) /\ o = ">" -> BooleanText(OperandNumber[l] > OperandNumber[r])
      [] BothNumbers(l, r) /\ o = ">=" ->
           BooleanText(OperandNumber[l] >= OperandNumber[r])
      [] BothNumbers(l, r) /\ o = "<" -> BooleanText(OperandNumber[l] < OperandNumber[r])
      [] BothNumbers(l, r) /\ o = "<=" ->
           BooleanText(OperandNumber[l] <= OperandNumber[r])
      [] o = "+" /\ OperandKind[l] = "String" /\ OperandKind[r] = "String" ->
           OperandText[l] \o OperandText[r]
      [] o = "==" /\ OperandKind[l] # OperandKind[r] -> <<"false">>
      [] o = "!=" /\ OperandKind[l] # OperandKind[r] -> <<"true">>
      [] o = "==" /\ l = r -> <<"true">>
      [] o = "!=" /\ l = r -> <<"false">>
      [] OTHER -> <<>>

\* C11: a binary expression yields the arithmetic result for + - * / on two
\* numbers, a Boolean for the comparisons of two numbers, the concatenation
\* for + on two strings, a Boolean for == and != on any pair (false for ==
\* on values of different kinds), and for every other combination a runtime
\* error that names the operator and both operand values
C11_BinaryOperations ==
    source \in OperatorsPrograms =>
        /\ phase \notin {"parse_error", "resolve_error", "panic", "cut"}
        /\ BinaryDefined(Printed[2], Printed[3], Printed[4]) =>
               /\ phase # "runtime_error"
               /\ phase = "done" =>
                      /\ Len(interp.out) = 1
                      /\ BinaryExpected(Printed[2], Printed[3], Printed[4]) # <<>> =>
                             interp.out[1] =
                                 BinaryExpected(Printed[2], Printed[3], Printed[4])
                      /\ Printed[3] \in {"==", "!=", ">", ">=", "<", "<="} =>
                             interp.out[1] \in {<<"true">>, <<"false">>}
        /\ ~BinaryDefined(Printed[2], Printed[3], Printed[4]) =>
               /\ phase # "done"
               /\ phase = "runtime_error" =>
                      errors = <<[msg |-> "Unsupported types for binary operation",
                                  args |-> <<OperandText[Printed[2]], Printed[3],
                                             OperandText[Printed[4]]>>]>>

\* the text of the value of an operand of a logical expression
LogicalText ==
    [x \in LogicalLefts \cup LogicalRights |->
        CASE x = "\"\"" -> <<>>
          [] x = "\"A\"" -> <<"A">>
          [] x = "f" -> <<"<fn ", "f", ">">>
          [] x = "k" -> <<"<instance ", "K", ">">>
          [] OTHER -> <<x>>]

\* the value the right operand assigns to x
LogicalValue ==
    ("nil" :> Nil) @@ ("false" :> Boolean(FALSE)) @@ ("1" :> Number(1)) @@
    ("\"A\"" :> String(<<"A">>))

\* only nil and false are falsy
LogicalTruthy(l) == l \notin {"nil", "false"}

\* whether l o r evaluates its right operand
LogicalEvaluatesRight(l, o) == LogicalTruthy(l) = (o = "and")

\* the two lines print l o (x = r); print x; writes
LogicalExpected(l, o, r) ==
    IF LogicalEvaluatesRight(l, o)
    THEN <<LogicalText[r], LogicalText[r]>>
    ELSE <<LogicalText[l], <<"0">>>>

\* C12: a and b evaluates b, and yields its value, only if a is truthy, and
\* yields the value of a otherwise; a or b evaluates b only if a is falsy;
\* the result is the value of the operand itself, and only nil and false are
\* falsy: the side effect of b on x is seen exactly when b is evaluated
C12_LogicalShortCircuit ==
    source \in LogicalPrograms =>
        /\ ~Failed
        /\ Len(interp.out) <= 2
        /\ phase = "done" => Len(interp.out) = 2
        /\ \A i \in 1..Len(interp.out) :
               interp.out[i] = LogicalExpected(Printed[2], Printed[3], Printed[7])[i]
        /\ Len(interp.out) >= 1 =>
               Globals(interp)["x"] =
                   IF LogicalEvaluatesRight(Printed[2], Printed[3])
                   THEN LogicalValue[Printed[7]]
                   ELSE Number(0)

\* 0 and (x = 1) gave 1 and set x; "" or (x = 1) gave "" and left x alone
C12_Witness ==
    \/ /\ Printed = <<"print", "0", "and", "(", "x", "=", "1", ")", ";",
                      "print", "x", ";">>
       /\ phase = "done"
       /\ interp.out = <<<<"1">>, <<"1">>>>
    \/ /\ Printed = <<"print", "\"\"", "or", "(", "x", "=", "1", ")", ";",
                      "print", "x", ";">>
       /\ phase = "done"
       /\ interp.out = <<<<>>, <<"0">>>>

\* the programs that print l o r for two numbers and an arithmetic operator
ArithmeticPrograms ==
    {p \in OperatorsPrograms :
        /\ BothNumbers(p[Len(ExpressionPrelude) + 2], p[Len(ExpressionPrelude) + 4])
        /\ p[Len(ExpressionPrelude) + 3] \in {"+", "-", "*", "/"}}

\* C13: the evaluation of an expression yields a value or a runtime error
\* that interpret returns, for + - * / on every pair of numbers (every
\* divisor), for unary negation, and for the read of a variable at the
\* distance the resolver gave it: the interpreter never ends in another way
C13_EvaluationNeverAborts ==
    source \in ArithmeticPrograms \cup NegationPrograms \cup ResolvedReadPrograms =>
        /\ phase # "panic"
        /\ interp.panic = ""

(***************************************************************************)
(* Objects: programs about properties and aliases of instances, and the    *)
(* run of one of them.                                                      *)
(***************************************************************************)
\* a class with a method m, and two instances of it
PropertyPrelude ==
    <<"class", "P", "{", "m", "(", ")", "{", "return", "this", ";", "}",
      "}", "var", "p", "=", "P", "(", ")", ";", "var", "q", "=", "P", "(",
      ")", ";">>

\* how many statements PropertyPrelude has
PropertyPreludeLength == Len(parse(scan_tokens(PropertyPrelude)).n)

\* reads of the property m, a store to a field m, and reads that must fail
PropertyMenu ==
    << <<"var", "b", "=", "p", ".", "m", ";">>,
       <<"p", ".", "m", "=", "5", ";">>,
       <<"print", "p", ".", "m", ";">>,
       <<"print", "p", ".", "zz", ";">>,
       <<"print", "nil", ".", "m", ";">>,
       <<"print", "q", ".", "m", ";">> >>

PropertyPrograms == ProgramsOf(PropertyPrelude, PropertyMenu)

\* a class with a setter and a getter; a is an instance, b a second variable
\* holding it, h.o a field holding it, and c another instance of the class
AliasPrelude ==
    <<"class", "Q", "{", "set", "(", "v", ")", "{", "this", ".", "f", "=",
      "v", ";", "}", "get", "(", ")", "{", "return", "this", ".", "f", ";",
      "}", "}", "fun", "put", "(", "o", ",", "v", ")", "{", "o", ".", "f",
      "=", "v", ";", "}", "var", "a", "=", "Q", "(", ")", ";", "var", "b",
      "=", "a", ";", "var", "c", "=", "Q", "(", ")", ";", "var", "h", "=",
      "Q", "(", ")", ";", "h", ".", "o", "=", "a", ";", "a", ".", "f", "=",
      "0", ";", "c", ".", "f", "=", "0", ";", "fun", "show", "(", ")", "{",
      "print", "a", ".", "f", ";", "print", "b", ".", "f", ";", "print",
      "h", ".", "o", ".", "f", ";", "print", "a", ".", "get", "(", ")",
      ";", "print", "c", ".", "f", ";", "}">>

\* how many statements AliasPrelude has
AliasPreludeLength == Len(parse(scan_tokens(AliasPrelude)).n)

\* stores to the field f through a, through b, through a parameter, through
\* this and through the field h.o; a store to f of c; and the reads
AliasMenu ==
    << <<"a", ".", "f", "=", "1", ";">>,
       <<"b", ".", "f", "=", "2", ";">>,
       <<"put", "(", "a", ",", "3", ")", ";">>,
       <<"b", ".", "set", "(", "5", ")", ";">>,
       <<"h", ".", "o", ".", "f", "=", "7", ";">>,
       <<"c", ".", "f", "=", "10", ";">>,
       <<"show", "(", ")", ";">> >>

AliasPrograms == ProgramsOf(AliasPrelude, AliasMenu)

ObjectPrograms == PropertyPrograms \cup AliasPrograms

ObjectInit ==
    /\ source \in ObjectPrograms
    /\ phase = "scanned"
    /\ parser = [tokens |-> <<>>, current_id |-> 0]
    /\ statements = <<>>
    /\ locals = EmptyMap
    /\ interp = NoInterpreter
    /\ scanner = NoScanner
    /\ errors = <<>>

ObjectSpec == ObjectInit /\ [][Next]_vars

\* interpret is about to execute entry k of PropertyMenu
AtProperty(k) ==
    AtDriver(PropertyPrograms, PropertyPrelude, PropertyPreludeLength,
             PropertyMenu, k)

\* the cell of the instance that the global variable name holds
InstanceOf(s, name) == s.instances[Globals(s)[name].ref]

\* C14: a property read on an instance looks at the fields first and at the
\* methods of the class after them, so a field shadows a method; a method is
\* returned bound: a function over a new environment that encloses the
\* environment of the method and binds this to the instance; a name that is
\* neither, and a read on a value that is no instance, are runtime errors
C14_PropertyRead ==
    [][/\ (AtProperty(1) /\ "m" \in DOMAIN InstanceOf(Current, "p").fields) =>
              /\ phase' = "running"
              /\ Globals(interp')["b"] = InstanceOf(Current, "p").fields["m"]
              /\ interp'.envs = [Current.envs EXCEPT ![1].values =
                                    MapInsert(@, "b", Globals(interp')["b"])]
       /\ (AtProperty(1) /\ "m" \notin DOMAIN InstanceOf(Current, "p").fields) =>
              /\ phase' = "running"
              /\ Globals(interp')["b"].kind = "Callable"
              /\ Globals(interp')["b"].c.name = "m"
              /\ Globals(interp')["b"].c.callable.variant = "Function"
              /\ Globals(interp')["b"].c.callable.f.body
                     = InstanceOf(Current, "p").class.methods["m"].body
              /\ Globals(interp')["b"].c.callable.f.env = Len(Current.envs) + 1
              /\ Len(interp'.envs) = Len(Current.envs) + 1
              /\ interp'.envs[Len(Current.envs) + 1] =
                     [enclosing |-> InstanceOf(Current, "p").class.methods["m"].env,
                      values |-> ("this" :> Globals(Current)["p"])]
       /\ AtProperty(3) =>
              /\ phase' = "running"
              /\ interp'.out = Append(Current.out,
                     IF "m" \in DOMAIN InstanceOf(Current, "p").fields
                     THEN <<"5">> ELSE <<"<fn ", "m", ">">>)
       /\ AtProperty(6) =>
              /\ phase' = "running"
              /\ interp'.out = Append(Current.out, <<"<fn ", "m", ">">>)
       /\ AtProperty(4) =>
              /\ phase' = "runtime_error"
              /\ errors' = <<[msg |-> "Undefined property", args |-> <<"zz">>]>>
              /\ interp'.out = Current.out
       /\ AtProperty(5) =>
              /\ phase' = "runtime_error"
              /\ errors' = <<[msg |-> "Only instances have properties.",
                              args |-> <<>>]>>
              /\ interp'.out = Current.out
      ]_vars

\* p.m = 5; print p.m; var b = p.m; printed the field, and b holds the field
C14_Witness ==
    /\ source = Program(PropertyPrelude, PropertyMenu, <<2, 3, 1>>)
    /\ phase = "done"
    /\ interp.out = <<<<"5">>>>
    /\ Globals(interp)["b"] = Number(5)
    /\ "m" \in DOMAIN InstanceOf(interp, "p").class.methods


\* what entries 1..6 of AliasMenu write
AliasWritten ==
    <<Number(1), Number(2), Number(3), Number(5), Number(7), Number(10)>>

\* entries 1..5 write the field f of the one instance that a, b and h.o name
\* (directly, through an argument, through this in a method, through a field of
\* another instance); entry 6 writes the field of the separate instance c
RECURSIVE AliasExpected(_, _, _)
\* the output of the driver d, when f of the shared instance is shared and f
\* of the separate instance is own
AliasExpected(d, shared, own) ==
    IF d = <<>> THEN <<>>
    ELSE IF Head(d) = 7
    THEN <<Decimal_Display(shared), Decimal_Display(shared),
           Decimal_Display(shared), Decimal_Display(shared),
           Decimal_Display(own)>>
         \o AliasExpected(Tail(d), shared, own)
    ELSE IF Head(d) = 6
    THEN AliasExpected(Tail(d), shared, AliasWritten[6])
    ELSE AliasExpected(Tail(d), AliasWritten[Head(d)], own)

\* C15: instances have reference semantics: a write to a field through any
\* name of an instance (a variable, a second variable assigned from it, a
\* parameter, this inside a method, a field of another instance) is read back
\* through every other name, and a separate instance of the same class is
\* not changed by it
C15_InstancesAreReferences ==
    source \in AliasPrograms =>
        /\ ~Failed
        /\ phase = "done" =>
               interp.out = AliasExpected(DriverAfter(AliasPrelude, AliasMenu),
                                          Number(0), Number(0))
        /\ (phase \in {"running", "done"} /\ interp.pc > AliasPreludeLength) =>
               /\ Globals(interp)["a"] = Globals(interp)["b"]
               /\ "o" \in DOMAIN InstanceOf(interp, "h").fields
               /\ InstanceOf(interp, "h").fields["o"] = Globals(interp)["a"]
               /\ Globals(interp)["c"].ref # Globals(interp)["a"].ref

\* b.set(5); c.f = 10; show(); printed 5 through a, b, h.o and this, and 10 for c
C15_Witness ==
    /\ source = Program(AliasPrelude, AliasMenu, <<4, 6, 7>>)
    /\ phase = "done"
    /\ interp.out = <<<<"5">>, <<"5">>, <<"5">>, <<"5">>, <<"1", "0">>>>


(***************************************************************************)
(* Static checks: this and super in and out of classes, and the targets   *)
(* of assignments.                                                         *)
(***************************************************************************)
\* the places a use of this or super is put in, with the ClassType the
\* resolver is in there
ClassContexts ==
    <<\* at top level
      [before |->
          <<>>,
       after |->
          <<>>,
       class |-> "None"],
      \* in a block
      [before |->
          <<"{">>,
       after |->
          <<"}">>,
       class |-> "None"],
      \* in a function
      [before |->
          <<"fun", "f", "(", ")", "{">>,
       after |->
          <<"}">>,
       class |-> "None"],
      \* after a class
      [before |->
          <<"class", "A", "{", "m", "(", ")", "{", "}", "}">>,
       after |->
          <<>>,
       class |-> "None"],
      \* in a method
      [before |->
          <<"class", "A", "{", "m", "(", ")", "{">>,
       after |->
          <<"}", "}">>,
       class |-> "Class"],
      \* in a function in a method
      [before |->
          <<"class", "A", "{", "m", "(", ")", "{", "fun", "g", "(", ")", "{">>,
       after |->
          <<"}", "}", "}">>,
       class |-> "Class"],
      \* in an initializer
      [before |->
          <<"class", "A", "{", "init", "(", ")", "{">>,
       after |->
          <<"}", "}">>,
       class |-> "Class"],
      \* in a method of a subclass
      [before |->
          <<"class", "A", "{", "}", "class", "B", "<", "A", "{", "m", "(",
            ")", "{">>,
       after |->
          <<"}", "}">>,
       class |-> "Subclass"],
      \* in a function in a method of a subclass
      [before |->
          <<"class", "A", "{", "}", "class", "B", "<", "A", "{", "m", "(",
            ")", "{", "fun", "g", "(", ")", "{">>,
       after |->
          <<"}", "}", "}">>,
       class |-> "Subclass"],
      \* in a class after a subclass
      [before |->
          <<"class", "A", "{", "}", "class", "B", "<", "A", "{", "}",
            "class", "C", "{", "m", "(", ")", "{">>,
       after |->
          <<"}", "}">>,
       class |-> "Class"]>>

ClassUses ==
    <<[text |->
          <<"this", ";">>,
       keyword |-> "this"],
      [text |->
          <<"print", "this", ".", "x", ";">>,
       keyword |-> "this"],
      [text |->
          <<"this", ".", "x", "=", "1", ";">>,
       keyword |-> "this"],
      [text |->
          <<"super", ".", "m", "(", ")", ";">>,
       keyword |-> "super"],
      [text |->
          <<"print", "super", ".", "m", ";">>,
       keyword |-> "super"]>>

ClassUse(i, j) ==
    ClassContexts[i].before \o ClassUses[j].text \o ClassContexts[i].after

ClassUsePrograms ==
    {ClassUse(i, j) : i \in DOMAIN ClassContexts, j \in DOMAIN ClassUses}

\* a class, a function that returns the instance a, and the variables a and c
AssignmentPrelude ==
    <<"class", "O", "{", "}", "fun", "f", "(", ")", "{", "return", "a",
      ";", "}", "var", "a", "=", "O", "(", ")", ";", "a", ".", "b", "=",
      "a", ";", "var", "c", ";">>

AssignmentPreludeLength == Len(parse(scan_tokens(AssignmentPrelude)).n)

\* where the assignment is put: an expression statement, the operand of print,
\* the initializer of a variable, the value of another assignment
AssignmentWrappers ==
    <<[before |-> <<>>, after |-> <<";">>],
      [before |-> <<"print">>, after |-> <<";">>],
      [before |-> <<"var", "z", "=">>, after |-> <<";">>],
      [before |-> <<"c", "=">>, after |-> <<";">>]>>

\* the left-hand sides, each with the shape the parser gives it alone; a
\* Variable has the name assigned, a Get the name set and the shape of its
\* object
AssignmentTargets ==
    <<[text |-> <<"a">>, shape |-> "Variable",
       name |-> "a", object |-> ""],
      [text |-> <<"c">>, shape |-> "Variable",
       name |-> "c", object |-> ""],
      [text |-> <<"a", ".", "b">>, shape |-> "Get",
       name |-> "b", object |-> "Variable"],
      [text |-> <<"a", ".", "b", ".", "c">>, shape |-> "Get",
       name |-> "c", object |-> "Get"],
      [text |-> <<"f", "(", ")", ".", "b">>, shape |-> "Get",
       name |-> "b", object |-> "Call"],
      [text |-> <<"this", ".", "b">>, shape |-> "Get",
       name |-> "b", object |-> "This"],
      [text |-> <<"1">>, shape |-> "Literal",
       name |-> "", object |-> ""],
      [text |-> <<"nil">>, shape |-> "Literal",
       name |-> "", object |-> ""],
      [text |-> <<"\"A\"">>, shape |-> "Literal",
       name |-> "", object |-> ""],
      [text |-> <<"true">>, shape |-> "Literal",
       name |-> "", object |-> ""],
      [text |-> <<"(", "a", ")">>, shape |-> "Grouping",
       name |-> "", object |-> ""],
      [text |-> <<"(", "a", ".", "b", ")">>, shape |-> "Grouping",
       name |-> "", object |-> ""],
      [text |-> <<"f", "(", ")">>, shape |-> "Call",
       name |-> "", object |-> ""],
      [text |-> <<"a", ".", "b", "(", ")">>, shape |-> "Call",
       name |-> "", object |-> ""],
      [text |-> <<"a", "+", "c">>, shape |-> "Binary",
       name |-> "", object |-> ""],
      [text |-> <<"a", "==", "c">>, shape |-> "Binary",
       name |-> "", object |-> ""],
      [text |-> <<"a", ".", "b", "*", "2">>, shape |-> "Binary",
       name |-> "", object |-> ""],
      [text |-> <<"-", "a">>, shape |-> "Unary",
       name |-> "", object |-> ""],
      [text |-> <<"!", "a", ".", "b">>, shape |-> "Unary",
       name |-> "", object |-> ""],
      [text |-> <<"this">>, shape |-> "This",
       name |-> "", object |-> ""],
      [text |-> <<"a", "or", "c">>, shape |-> "Logical",
       name |-> "", object |-> ""],
      [text |-> <<"a", ".", "b", "and", "c">>, shape |-> "Logical",
       name |-> "", object |-> ""]>>

\* the right-hand sides, with their shapes
AssignmentValues ==
    <<[text |-> <<"1">>, shape |-> "Literal"],
      [text |-> <<"a">>, shape |-> "Variable"],
      [text |-> <<"c", "=", "2">>, shape |-> "Assign"],
      [text |-> <<"a", ".", "b", "=", "c">>, shape |-> "Set"]>>

AssignmentProgram(w, t, v) ==
    AssignmentPrelude \o AssignmentWrappers[w].before
        \o AssignmentTargets[t].text \o <<"=">> \o AssignmentValues[v].text
        \o AssignmentWrappers[w].after

AssignmentPrograms ==
    {AssignmentProgram(w, t, v) : w \in DOMAIN AssignmentWrappers,
                                  t \in DOMAIN AssignmentTargets,
                                  v \in DOMAIN AssignmentValues}

StaticPrograms == ClassUsePrograms \cup AssignmentPrograms

StaticInit ==
    /\ source \in StaticPrograms
    /\ phase = "scanned"
    /\ parser = [tokens |-> <<>>, current_id |-> 0]
    /\ statements = <<>>
    /\ locals = EmptyMap
    /\ interp = NoInterpreter
    /\ scanner = NoScanner
    /\ errors = <<>>

StaticSpec == StaticInit /\ [][Next]_vars


\* a program was turned down before it ran
StaticError == phase \in {"parse_error", "resolve_error"}

\* the resolver let the program through
PastResolver ==
    phase \in {"resolved", "running", "done", "runtime_error", "panic", "cut"}

\* what the rules of the language say of use j in context i
ClassUseAccepted(i, j) ==
    IF ClassUses[j].keyword = "this"
    THEN ClassContexts[i].class # "None"
    ELSE ClassContexts[i].class = "Subclass"

\* C16: this outside of a class, super outside of a class and super in a
\* class without superclass end with a static error; this in a method (or in
\* a function inside a method) is accepted, and so is super when the class
\* has a superclass
C16_ThisAndSuperChecks ==
    \A i \in DOMAIN ClassContexts, j \in DOMAIN ClassUses :
        source = ClassUse(i, j) =>
            /\ ClassUseAccepted(i, j) => ~StaticError
            /\ ~ClassUseAccepted(i, j) => ~PastResolver


\* the node that the parser made of lhs = value in the statement after the
\* prelude, under wrapper w
AssignmentNode(w) ==
    LET stmt == statements[AssignmentPreludeLength + 1] IN
    CASE w = 1 -> stmt.expression
      [] w = 2 -> stmt.expression
      [] w = 3 -> stmt.initializer
      [] w = 4 -> stmt.expression.value

\* C17: lhs = value becomes an Assign of the name when lhs is a Variable and
\* a Set of the property on the object when lhs is a Get; any other lhs (a
\* literal, a grouping, a call, a binary, unary or logical expression, this)
\* is the parse error 'Invalid assignment target.' and no statement is
\* produced
C17_AssignmentTargets ==
    \A w \in DOMAIN AssignmentWrappers, t \in DOMAIN AssignmentTargets,
       v \in DOMAIN AssignmentValues :
        (source = AssignmentProgram(w, t, v) /\ phase # "scanned") =>
            LET target == AssignmentTargets[t] IN
            CASE target.shape = "Variable" ->
                   /\ phase # "parse_error"
                   /\ Len(statements) = AssignmentPreludeLength + 1
                   /\ AssignmentNode(w).type = "Assign"
                   /\ AssignmentNode(w).name.lexeme = target.name
                   /\ AssignmentNode(w).value.type = AssignmentValues[v].shape
              [] target.shape = "Get" ->
                   /\ phase # "parse_error"
                   /\ Len(statements) = AssignmentPreludeLength + 1
                   /\ AssignmentNode(w).type = "Set"
                   /\ AssignmentNode(w).name.lexeme = target.name
                   /\ AssignmentNode(w).object.type = target.object
                   /\ AssignmentNode(w).value.type = AssignmentValues[v].shape
              [] OTHER ->
                   /\ phase = "parse_error"
                   /\ errors = <<[msg |-> "Invalid assignment target.",
                                  args |-> <<>>]>>
                   /\ statements = <<>>

\* a.b.c = 1; was parsed as a Set of c on the Get a.b and has run
C17_Witness ==
    /\ source = AssignmentProgram(1, 4, 1)
    /\ phase = "done"
    /\ AssignmentNode(1).type = "Set"
    /\ AssignmentNode(1).object.type = "Get"
    /\ InstanceOf(interp, "a").fields["c"] = Number(1)


\* C19: print writes the text of any value: nil, true, false, the digits of
\* a number, the contents of a string, <instance K> for an instance, <class K>
\* for a class and <fn name> for a function, the native function clock
\* included
C19_PrintedText ==
    \A v \in Operands :
        source = ExpressionPrelude \o <<"print", v, ";">> =>
            /\ ~Failed
            /\ phase = "done" => interp.out = <<OperandText[v]>>


(***************************************************************************)
(* The scanner (src/tokens/scanner.rs), character by character.  Here      *)
(* source is the input as a sequence of characters.  start and current     *)
(* are used by the code both as indices into chars() (peek) and as byte    *)
(* offsets (is_at_end, the slices of new_token), so a character has a      *)
(* width in bytes.                                                         *)
(***************************************************************************)
\* how many characters an input of the scanner has at most
MaxInput == 3

\* the characters of the inputs
Alphabet ==
    {"1", ".", "a", "i", "f", "!", "=", "<", "/", "\"", " ", "\n", ";", "@",
     "é"}

\* the characters of the alphabet that UTF-8 encodes in two bytes
TwoByteCharacters == {"é"}

Width(c) == IF c \in TwoByteCharacters THEN 2 ELSE 1

RECURSIVE ByteOffset(_, _)
\* the byte offset at which character i + 1 of src starts
ByteOffset(src, i) ==
    IF i = 0 THEN 0 ELSE ByteOffset(src, i - 1) + Width(src[i])

\* self.source.len()
ByteLength(src) == ByteOffset(src, Len(src))

\* the offsets a slice of src may start and end at
CharBoundaries(src) == {ByteOffset(src, i) : i \in 0..Len(src)}

\* &self.source[from..to]: [ok, text]; slicing inside a character panics
Slice(src, from, to) ==
    IF from \in CharBoundaries(src) /\ to \in CharBoundaries(src) /\ from <= to
    THEN [ok |-> TRUE,
          text |-> SubSeq(src,
                          (CHOOSE i \in 0..Len(src) : ByteOffset(src, i) = from) + 1,
                          CHOOSE i \in 0..Len(src) : ByteOffset(src, i) = to)]
    ELSE [ok |-> FALSE, text |-> <<>>]

\* the keywords, spelled
KeywordText ==
    [and |-> <<"a", "n", "d">>, class |-> <<"c", "l", "a", "s", "s">>,
     else |-> <<"e", "l", "s", "e">>, false |-> <<"f", "a", "l", "s", "e">>,
     for |-> <<"f", "o", "r">>, fun |-> <<"f", "u", "n">>, if |-> <<"i", "f">>,
     nil |-> <<"n", "i", "l">>, or |-> <<"o", "r">>,
     print |-> <<"p", "r", "i", "n", "t">>,
     return |-> <<"r", "e", "t", "u", "r", "n">>,
     super |-> <<"s", "u", "p", "e", "r">>, this |-> <<"t", "h", "i", "s">>,
     true |-> <<"t", "r", "u", "e">>, var |-> <<"v", "a", "r">>,
     while |-> <<"w", "h", "i", "l", "e">>]

Scanner_is_digit(c) == c \in DOMAIN DigitValue

Scanner_is_alpha(c) ==
    c \in {"a", "b", "c", "d", "e", "f", "g", "h", "i", "j", "k", "l", "m",
           "n", "o", "p", "q", "r", "s", "t", "u", "v", "w", "x", "y", "z",
           "A", "B", "C", "D", "E", "F", "G", "H", "I", "J", "K", "L", "M",
           "N", "O", "P", "Q", "R", "S", "T", "U", "V", "W", "X", "Y", "Z",
           "_"}

Scanner_is_alpha_numeric(c) == Scanner_is_alpha(c) \/ Scanner_is_digit(c)

Scanner_is_at_end(src, sc) == sc.current >= ByteLength(src)

\* self.source.chars().nth(n).unwrap(): <<>> stands for the panic of unwrap
Scanner_nth(src, n) == IF n + 1 <= Len(src) THEN <<src[n + 1]>> ELSE <<>>

Scanner_peek(src, sc) == Scanner_nth(src, sc.current)

Scanner_peek_next(src, sc) == Scanner_nth(src, sc.current + 1)

\* the results of the scanning functions: a token, no token, a lexical
\* error, or a panic
SSome(sc, token) == [sc |-> sc, tag |-> "Some", v |-> token]
SNone(sc) == [sc |-> sc, tag |-> "None", v |-> <<>>]
SErr(sc, error) == [sc |-> sc, tag |-> "Err", v |-> error]
SPanic(sc, msg) == [sc |-> sc, tag |-> "Panic", v |-> msg]

UnwrapNone == "called Option::unwrap() on a None value"
NotCharBoundary == "byte index is not a char boundary"

Scanner_new_token(src, sc, token_type, literal) ==
    IF Slice(src, sc.start, sc.current).ok
    THEN SSome(sc, [token_type |-> token_type,
                    lexeme |-> Slice(src, sc.start, sc.current).text,
                    literal |-> literal,
                    line_number |-> sc.line])
    ELSE SPanic(sc, NotCharBoundary)

\* advance, after a peek that did not panic
Scanner_advance(sc) == [sc EXCEPT !.current = @ + 1]

RECURSIVE Scanner_while(_, _, _)
\* while !self.is_at_end() && more(self.peek()) { self.advance(); }, where a
\* newline adds to line when lines is set: [sc, panic]
Scanner_while(src, sc, loop) ==
    IF Scanner_is_at_end(src, sc) THEN [sc |-> sc, panic |-> FALSE]
    ELSE IF Scanner_peek(src, sc) = <<>> THEN [sc |-> sc, panic |-> TRUE]
    ELSE LET c == Scanner_peek(src, sc)[1]
             more == CASE loop = "comment" -> c # "\n"
                       [] loop = "string" -> c # "\""
                       [] loop = "digits" -> Scanner_is_digit(c)
                       [] loop = "identifier" -> Scanner_is_alpha_numeric(c)
         IN  IF ~more THEN [sc |-> sc, panic |-> FALSE]
             ELSE Scanner_while(src,
                      Scanner_advance(IF loop = "string" /\ c = "\n"
                                      THEN [sc EXCEPT !.line = @ + 1] ELSE sc),
                      loop)

Scanner_parse_string(src, sc) ==
    LET w == Scanner_while(src, sc, "string") IN
    IF w.panic THEN SPanic(w.sc, UnwrapNone)
    ELSE IF Scanner_is_at_end(src, w.sc) THEN SErr(w.sc, <<"unterminated string">>)
    ELSE IF Scanner_peek(src, w.sc) = <<>> THEN SPanic(w.sc, UnwrapNone)
    ELSE LET sc1 == Scanner_advance(w.sc)
             value == Slice(src, sc1.start + 1, sc1.current - 1)
         IN  IF ~value.ok THEN SPanic(sc1, NotCharBoundary)
             ELSE Scanner_new_token(src, sc1, "String", String(value.text))

\* the fraction of parse_number: entered after peek gave a character
Scanner_parse_fraction(src, sc) ==
    IF Scanner_peek(src, sc)[1] # "." THEN [sc |-> sc, panic |-> FALSE]
    ELSE IF Scanner_peek_next(src, sc) = <<>> THEN [sc |-> sc, panic |-> TRUE]
    ELSE IF ~Scanner_is_digit(Scanner_peek_next(src, sc)[1])
    THEN [sc |-> sc, panic |-> FALSE]
    ELSE Scanner_while(src, Scanner_advance(sc), "digits")

Scanner_parse_number(src, sc) ==
    LET w == Scanner_while(src, sc, "digits") IN
    IF w.panic \/ Scanner_peek(src, w.sc) = <<>> THEN SPanic(w.sc, UnwrapNone)
    ELSE LET f == Scanner_parse_fraction(src, w.sc) IN
         IF f.panic THEN SPanic(f.sc, UnwrapNone)
         ELSE IF ~Slice(src, f.sc.start, f.sc.current).ok
         THEN SPanic(f.sc, NotCharBoundary)
         ELSE Scanner_new_token(src, f.sc, "Number",
                  parse_number_text(Slice(src, f.sc.start, f.sc.current).text))

Scanner_parse_identifier(src, sc) ==
    LET w == Scanner_while(src, sc, "identifier") IN
    IF w.panic THEN SPanic(w.sc, UnwrapNone)
    ELSE IF ~Slice(src, w.sc.start, w.sc.current).ok
    THEN SPanic(w.sc, NotCharBoundary)
    ELSE LET text == Slice(src, w.sc.start, w.sc.current).text
             keywords == {k \in DOMAIN KeywordText : KeywordText[k] = text}
         IN  IF keywords # {}
             THEN Scanner_new_token(src, w.sc,
                                    KEYWORDS[CHOOSE k \in keywords : TRUE], Nil)
             ELSE Scanner_new_token(src, w.sc, "Identifier", Nil)

\* the arms of scan_token that look at the next character for '='
Scanner_one_or_two(src, sc, one, two) ==
    IF Scanner_peek(src, sc) = <<>> THEN SPanic(sc, UnwrapNone)
    ELSE IF Scanner_peek(src, sc)[1] = "="
    THEN Scanner_new_token(src, Scanner_advance(sc), two, Nil)
    ELSE Scanner_new_token(src, sc, one, Nil)

Scanner_slash(src, sc) ==
    IF Scanner_peek(src, sc) = <<>> THEN SPanic(sc, UnwrapNone)
    ELSE IF Scanner_peek(src, sc)[1] = "/"
    THEN LET w == Scanner_while(src, Scanner_advance(sc), "comment") IN
         IF w.panic THEN SPanic(w.sc, UnwrapNone) ELSE SNone(w.sc)
    ELSE Scanner_new_token(src, sc, "Slash", Nil)

Scanner_scan_token(src, sc0) ==
    IF Scanner_peek(src, sc0) = <<>> THEN SPanic(sc0, UnwrapNone)
    ELSE LET c == Scanner_peek(src, sc0)[1]
             sc == Scanner_advance(sc0)
         IN  CASE c \in {"(", ")", "{", "}", ",", ".", "-", "+", ";", "*"} ->
                    Scanner_new_token(src, sc, Punctuation[c], Nil)
               [] c = "!" -> Scanner_one_or_two(src, sc, "Bang", "BangEqual")
               [] c = "=" -> Scanner_one_or_two(src, sc, "Equal", "EqualEqual")
               [] c = "<" -> Scanner_one_or_two(src, sc, "Less", "LessEqual")
               [] c = ">" -> Scanner_one_or_two(src, sc, "Greater", "GreaterEqual")
               [] c = "/" -> Scanner_slash(src, sc)
               [] c \in {" ", "\r", "\t"} -> SNone(sc)
               [] c = "\n" -> SNone([sc EXCEPT !.line = @ + 1])
               [] c = "\"" -> Scanner_parse_string(src, sc)
               [] Scanner_is_digit(c) -> Scanner_parse_number(src, sc)
               [] Scanner_is_alpha(c) -> Scanner_parse_identifier(src, sc)
               [] OTHER -> SErr(sc, <<"Unexpected charater: ", c>>)

ScanInputs == UNION {[1..n -> Alphabet] : n \in 0..MaxInput}

ScanInit ==
    /\ source \in ScanInputs
    /\ phase = "scanning"
    /\ scanner = NoScanner
    /\ parser = [tokens |-> <<>>, current_id |-> 0]
    /\ statements = <<>>
    /\ locals = EmptyMap
    /\ interp = NoInterpreter
    /\ errors = <<>>

\* one turn of the loop of scan_tokens
ScanToken ==
    /\ phase = "scanning"
    /\ ~Scanner_is_at_end(source, scanner)
    /\ LET r == Scanner_scan_token(source, [scanner EXCEPT !.start = scanner.current,
                                        !.tokens = <<>>])
           sc == [r.sc EXCEPT !.tokens = scanner.tokens]
       IN  CASE r.tag = "None" ->
                  /\ scanner' = sc
                  /\ UNCHANGED <<phase, errors>>
             [] r.tag = "Some" ->
                  /\ scanner' = [sc EXCEPT !.tokens = Append(@, r.v)]
                  /\ UNCHANGED <<phase, errors>>
             [] r.tag = "Err" ->
                  /\ scanner' = sc
                  /\ errors' = Append(errors, r.v)
                  /\ UNCHANGED phase
             [] r.tag = "Panic" ->
                  /\ scanner' = sc
                  /\ phase' = "panic"
                  /\ errors' = <<r.v>>
    /\ UNCHANGED <<source, parser, statements, locals, interp>>

\* the end of scan_tokens: the Eof token, and Ok(tokens) or Err(errors)
ScanEnd ==
    /\ phase = "scanning"
    /\ Scanner_is_at_end(source, scanner)
    /\ LET eof == Scanner_new_token(source, [start |-> scanner.start,
                                             current |-> scanner.current,
                                             line |-> scanner.line], "Eof", Nil)
       IN  IF eof.tag = "Panic"
           THEN /\ phase' = "panic"
                /\ errors' = <<eof.v>>
                /\ UNCHANGED scanner
           ELSE /\ scanner' = [scanner EXCEPT !.tokens = Append(@, eof.v)]
                /\ phase' = IF errors = <<>> THEN "scan_ok" ELSE "scan_error"
                /\ UNCHANGED errors
    /\ UNCHANGED <<source, parser, statements, locals, interp>>

ScanNext == ScanToken \/ ScanEnd

ScanSpec == ScanInit /\ [][ScanNext]_vars


\* the characters of the alphabet that start no token
Offending == {"@", "é"}

\* the input has no string and no comment, whose contents are not scanned
PlainInput == \A i \in DOMAIN source : source[i] \notin {"\"", "/"}

ScanEnded == phase \in {"scan_ok", "scan_error", "panic"}

\* C18: on every input the scanner comes to an end and returns the tokens,
\* with one end-of-input token as the last of them, or the lexical errors: as
\* many as the input has offending characters; it never stops on the way,
\* wherever a token ends, the end of the input included
C18_ScannerIsTotal ==
    /\ phase # "panic"
    /\ phase = "scan_ok" =>
           /\ errors = <<>>
           /\ scanner.tokens # <<>>
           /\ \A i \in DOMAIN scanner.tokens :
                  scanner.tokens[i].token_type = "Eof" <=> i = Len(scanner.tokens)
    /\ (phase \in {"scan_ok", "scan_error"} /\ PlainInput) =>
           Len(errors) = Cardinality({i \in DOMAIN source : source[i] \in Offending})
    /\ phase = "scan_error" => errors # <<>>


(***************************************************************************)
(* Decimal numbers: literals with a fraction, + - * and the comparisons.   *)
(***************************************************************************)
DecimalOperands == {"0.1", "0.2", "0.3", "0.5", "1.5", "0.25", "0.30", "1"}

ArithmeticOperators == {"+", "-", "*"}

ComparisonOperators == {"==", "!=", "<", "<=", ">", ">="}

\* print l o r == e;
SumPrograms ==
    {<<"print", l, o, r, "==", e, ";">> :
        l \in DecimalOperands, o \in ArithmeticOperators,
        r \in DecimalOperands, e \in DecimalOperands}

\* print l c r;
ComparisonPrograms ==
    {<<"print", l, c, r, ";">> :
        l \in DecimalOperands, c \in ComparisonOperators, r \in DecimalOperands}

\* print l o r;
ResultPrograms ==
    {<<"print", l, o, r, ";">> :
        l \in DecimalOperands, o \in ArithmeticOperators, r \in DecimalOperands}

DecimalPrograms == SumPrograms \cup ComparisonPrograms \cup ResultPrograms

DecimalInit ==
    /\ source \in DecimalPrograms
    /\ phase = "scanned"
    /\ parser = [tokens |-> <<>>, current_id |-> 0]
    /\ statements = <<>>
    /\ locals = EmptyMap
    /\ interp = NoInterpreter
    /\ scanner = NoScanner
    /\ errors = <<>>

DecimalSpec == DecimalInit /\ [][Next]_vars

\* what the operands denote, in ten-thousandths
TenThousandths ==
    ("0.1" :> 1000) @@ ("0.2" :> 2000) @@ ("0.3" :> 3000) @@ ("0.5" :> 5000) @@
    ("1.5" :> 15000) @@ ("0.25" :> 2500) @@ ("0.30" :> 3000) @@ ("1" :> 10000)

\* the exact value of l o r, in units of 10^-8
ExactResult(l, o, r) ==
    CASE o = "+" -> (TenThousandths[l] + TenThousandths[r]) * Pow10(4)
      [] o = "-" -> (TenThousandths[l] - TenThousandths[r]) * Pow10(4)
      [] o = "*" -> TenThousandths[l] * TenThousandths[r]

ExactComparison(x, c, y) ==
    CASE c = "==" -> x = y
      [] c = "!=" -> x # y
      [] c = "<" -> x < y
      [] c = "<=" -> x <= y
      [] c = ">" -> x > y
      [] c = ">=" -> x >= y

\* the value of a printed number, in units of 10^-8
PrintedValue(text) ==
    IF Head(text) = "-"
    THEN -(parse_number_text(Tail(text)).n
           * Pow10(8 - parse_number_text(Tail(text)).e))
    ELSE parse_number_text(text).n * Pow10(8 - parse_number_text(text).e)

DistancePrelude ==
    <<"class", "K", "{", "}">>

DistancePreludeLength == Len(parse(scan_tokens(DistancePrelude)).n)

\* each entry prints one value: a read and an assignment in a nested block, in a
\* function, a read in a method of a class declared in a block, this and a
\* parameter in methods, and a read and an assignment of a local of the
\* enclosing block or function in a method of a class with a superclass
DistanceMenu ==
    << <<"{", "var", "a", "=", "1", ";", "{", "print", "a", ";", "}", "}">>,
       <<"{", "var", "a", "=", "1", ";", "{", "a", "=", "2", ";", "}",
         "print", "a", ";", "}">>,
       <<"{", "var", "a", "=", "1", ";", "fun", "g", "(", ")", "{", "a",
         "=", "a", "+", "1", ";", "return", "a", ";", "}", "print", "g",
         "(", ")", ";", "}">>,
       <<"{", "var", "a", "=", "1", ";", "class", "A", "{", "m", "(", ")",
         "{", "return", "a", ";", "}", "}", "print", "A", "(", ")", ".",
         "m", "(", ")", ";", "}">>,
       <<"class", "T", "{", "m", "(", ")", "{", "return", "this", ";", "}",
         "}", "print", "T", "(", ")", ".", "m", "(", ")", ";">>,
       <<"class", "D", "<", "K", "{", "m", "(", "p", ")", "{", "this", ".",
         "f", "=", "p", ";", "return", "this", ".", "f", ";", "}", "}",
         "print", "D", "(", ")", ".", "m", "(", "7", ")", ";">>,
       <<"{", "var", "a", "=", "1", ";", "class", "B", "<", "K", "{", "m",
         "(", ")", "{", "return", "a", ";", "}", "}", "print", "B", "(",
         ")", ".", "m", "(", ")", ";", "}">>,
       <<"fun", "h", "(", ")", "{", "var", "a", "=", "3", ";", "class",
         "C", "<", "K", "{", "m", "(", ")", "{", "a", "=", "5", ";",
         "return", "a", ";", "}", "}", "return", "C", "(", ")", ".", "m",
         "(", ")", ";", "}", "print", "h", "(", ")", ";">> >>

DistancePrograms == ProgramsOf(DistancePrelude, DistanceMenu)

DistanceInit ==
    /\ source \in DistancePrograms
    /\ phase = "scanned"
    /\ parser = [tokens |-> <<>>, current_id |-> 0]
    /\ statements = <<>>
    /\ locals = EmptyMap
    /\ interp = NoInterpreter
    /\ scanner = NoScanner
    /\ errors = <<>>

DistanceSpec == DistanceInit /\ [][Next]_vars


\* what each entry of DistanceMenu prints when every occurrence is looked up
\* in the environment that holds its binding
DistanceExpected ==
    << <<"1">>, <<"2">>, <<"2">>, <<"1">>, <<"<instance ", "T", ">">>, <<"7">>,
       <<"1">>, <<"5">> >>

\* C21: the scopes of the resolver mirror the environments of the
\* interpreter: a read, an assignment or a this that the resolver gave the
\* distance d finds its binding d environments above the innermost one, in
\* blocks, functions, methods of classes without superclass and methods of
\* classes with a superclass, so every entry prints the value of its variable
C21_DistancesAreValid ==
    source \in DistancePrograms =>
        LET d == DriverAfter(DistancePrelude, DistanceMenu) IN
        /\ ~Failed
        /\ Len(interp.out) <= Len(d)
        /\ phase = "done" => Len(interp.out) = Len(d)
        /\ \A i \in 1..Len(interp.out) : interp.out[i] = DistanceExpected[d[i]]


(***************************************************************************)
(* return out of blocks, if branches and while loops.                      *)
(***************************************************************************)
\* inner returns i + 10 from a block in an if branch in a block in a while loop
\* when i reaches n, and 5 after the loop; outer goes on after the call
UnwindPrelude ==
    <<"fun", "inner", "(", "n", ")", "{", "var", "i", "=", "0", ";",
      "while", "(", "i", "<", "3", ")", "{", "{", "if", "(", "i", "==",
      "n", ")", "{", "return", "i", "+", "10", ";", "}", "else", "{",
      "print", "i", ";", "}", "}", "i", "=", "i", "+", "1", ";", "}",
      "print", "7", ";", "return", "5", ";", "}", "fun", "outer", "(", "n",
      ")", "{", "var", "r", "=", "inner", "(", "n", ")", ";", "print", "r",
      ";", "if", "(", "r", "==", "5", ")", "return", "r", "+", "2", ";",
      "return", "r", "+", "1", ";", "print", "3", ";", "}">>

UnwindPreludeLength == Len(parse(scan_tokens(UnwindPrelude)).n)

\* calls of outer with an n the loop reaches, and with one it does not reach
UnwindMenu ==
    << <<"print", "outer", "(", "0", ")", ";">>,
       <<"print", "outer", "(", "1", ")", ";">>,
       <<"print", "outer", "(", "2", ")", ";">>,
       <<"print", "outer", "(", "5", ")", ";">> >>

UnwindPrograms == ProgramsOf(UnwindPrelude, UnwindMenu)

UnwindInit ==
    /\ source \in UnwindPrograms
    /\ phase = "scanned"
    /\ parser = [tokens |-> <<>>, current_id |-> 0]
    /\ statements = <<>>
    /\ locals = EmptyMap
    /\ interp = NoInterpreter
    /\ scanner = NoScanner
    /\ errors = <<>>

UnwindSpec == UnwindInit /\ [][Next]_vars

\* the argument of the call in each entry of UnwindMenu
UnwindArgument == <<0, 1, 2, 5>>

\* the numbers that print outer(n); prints: the turns of the loop before the
\* return, then what inner returned, then what outer returned
UnwindExpected(n) ==
    IF n < 3
    THEN [i \in 1..n |-> i - 1] \o <<n + 10, n + 11>>
    ELSE <<0, 1, 2, 7, 5, 7>>

RECURSIVE UnwindOutput(_)
\* the lines the driver d prints
UnwindOutput(d) ==
    IF d = <<>> THEN <<>>
    ELSE [i \in DOMAIN UnwindExpected(UnwindArgument[Head(d)]) |->
             Decimal_Display(Number(UnwindExpected(UnwindArgument[Head(d)])[i]))]
         \o UnwindOutput(Tail(d))

\* C22: a return inside blocks, if branches and while loops of a function
\* body stops the rest of the body and of the loop, goes through these
\* constructs as it is and ends the nearest call, which has the returned
\* value; the caller goes on with its next statement, and the call that
\* encloses it is not ended
C22_ReturnUnwindsToNearestCall ==
    source \in UnwindPrograms =>
        /\ ~Failed
        /\ IsPrefix(interp.out, UnwindOutput(DriverAfter(UnwindPrelude, UnwindMenu)))
        /\ phase = "done" =>
               interp.out = UnwindOutput(DriverAfter(UnwindPrelude, UnwindMenu))

\* outer(1), outer(5): the loop was left in its second turn by the return of
\* 11, outer printed it and returned 12; then the loop ran to its end
C22_Witness ==
    /\ source = Program(UnwindPrelude, UnwindMenu, <<2, 4>>)
    /\ phase = "done"
    /\ interp.out = <<<<"0">>, <<"1", "1">>, <<"1", "2">>,
                      <<"0">>, <<"1">>, <<"2">>, <<"7">>, <<"5">>, <<"7">>>>


(***************************************************************************)
(* The nodes of a parse and the keys of the locals map.                    *)
(***************************************************************************)
RECURSIVE ExprNodes(_)
RECURSIVE StmtNodes(_)
RECURSIVE NodesOfAll(_, _)

\* the nodes of the trees in list, in order; expressions tells the kind
NodesOfAll(list, expressions) ==
    IF list = <<>> THEN <<>>
    ELSE (IF expressions THEN ExprNodes(Head(list)) ELSE StmtNodes(Head(list)))
         \o NodesOfAll(Tail(list), expressions)

\* the expression and the expressions below it
ExprNodes(expr) ==
    <<expr>> \o
    CASE expr.type = "Assign" -> ExprNodes(expr.value)
      [] expr.type \in {"Binary", "Logical"} ->
            ExprNodes(expr.left) \o ExprNodes(expr.right)
      [] expr.type = "Call" ->
            ExprNodes(expr.callee) \o NodesOfAll(expr.arguments, TRUE)
      [] expr.type = "Get" -> ExprNodes(expr.object)
      [] expr.type = "Grouping" -> ExprNodes(expr.expression)
      [] expr.type = "Set" -> ExprNodes(expr.object) \o ExprNodes(expr.value)
      [] expr.type = "Unary" -> ExprNodes(expr.right)
      [] OTHER -> <<>>

\* the statement and the statements and expressions below it
StmtNodes(stmt) ==
    <<stmt>> \o
    CASE stmt.type = "Block" -> NodesOfAll(stmt.statements, FALSE)
      [] stmt.type = "Class" ->
            NodesOfAll(stmt.superclass, TRUE) \o NodesOfAll(stmt.methods, FALSE)
      [] stmt.type \in {"Expression", "Print"} -> ExprNodes(stmt.expression)
      [] stmt.type = "Function" -> NodesOfAll(stmt.body, FALSE)
      [] stmt.type = "If" ->
            ExprNodes(stmt.condition) \o StmtNodes(stmt.then_branch)
            \o StmtNodes(stmt.else_branch)
      [] stmt.type = "Return" -> ExprNodes(stmt.value)
      [] stmt.type = "Var" -> ExprNodes(stmt.initializer)
      [] stmt.type = "While" -> ExprNodes(stmt.condition) \o StmtNodes(stmt.body)
      [] OTHER -> <<>>

\* the key the resolver files an occurrence under: a this is filed as a
\* variable with the id of the this
LocalsKey(node) ==
    IF node.type = "This" THEN VariableExpr(node.id, node.keyword) ELSE node

\* the places in nodes of the occurrences filed under key
Occurrences(nodes, key) ==
    {i \in DOMAIN nodes :
        /\ nodes[i].type \in {"Variable", "Assign", "This", "Super"}
        /\ LocalsKey(nodes[i]) = key}

\* C23: the nodes of one parse have ids that differ from each other, all
\* handed out by the counter (below its value); so every key of the locals
\* map stands for exactly one occurrence in the source, and no other key has
\* its id
C23_UniqueIds ==
    (source \in DistancePrograms /\ phase \notin {"scanned", "parse_error"}) =>
        LET nodes == NodesOfAll(statements, FALSE) IN
        /\ \A i, j \in DOMAIN nodes : nodes[i].id = nodes[j].id => i = j
        /\ \A i \in DOMAIN nodes : nodes[i].id < parser.current_id
        /\ \A key \in DOMAIN locals :
              /\ Cardinality(Occurrences(nodes, key)) = 1
              /\ \A other \in DOMAIN locals : other.id = key.id => other = key

\* class D < K { m(p) { this.f = p; return this.f; } } print D().m(7); is
\* resolved: the two this and the p have a key each
C23_Witness ==
    /\ source = Program(DistancePrelude, DistanceMenu, <<6>>)
    /\ phase = "resolved"
    /\ Cardinality({key \in DOMAIN locals :
                       key.type = "Variable" /\ key.name.lexeme = "this"}) = 2
    /\ \E key \in DOMAIN locals : key.type = "Variable" /\ key.name.lexeme = "p"


(***************************************************************************)
(* The order in which the parts of an expression are evaluated.            *)
(***************************************************************************)
\* a, b, e, g and k print a line of their own when they run; e fails after it
OrderPrelude ==
    <<"fun", "a", "(", ")", "{", "print", "\"A\"", ";", "return", "1", ";",
      "}", "fun", "b", "(", ")", "{", "print", "\"B\"", ";", "return", "2",
      ";", "}", "fun", "e", "(", ")", "{", "print", "\"outer\"", ";",
      "return", "nil", "+", "1", ";", "}", "fun", "g", "(", "x", ",", "y",
      ")", "{", "print", "\"body\"", ";", "return", "x", ";", "}", "fun",
      "k", "(", ")", "{", "print", "\"\"", ";", "return", "g", ";", "}">>

OrderPreludeLength == Len(parse(scan_tokens(OrderPrelude)).n)

\* operands and arguments that print; the last four entries fail
OrderMenu ==
    << <<"print", "a", "(", ")", "-", "b", "(", ")", ";">>,
       <<"print", "k", "(", ")", "(", "a", "(", ")", ",", "b", "(", ")",
         ")", ";">>,
       <<"print", "a", "(", ")", ">", "1", "or", "b", "(", ")", ">", "1",
         ";">>,
       <<"print", "e", "(", ")", "+", "a", "(", ")", ";">>,
       <<"g", "(", "a", "(", ")", ",", "e", "(", ")", ",", "b", "(", ")",
         ")", ";">>,
       <<"nil", "(", "a", "(", ")", ",", "b", "(", ")", ")", ";">>,
       <<"g", "(", "b", "(", ")", ")", ";">> >>

OrderPrograms == ProgramsOf(OrderPrelude, OrderMenu)

OrderInit ==
    /\ source \in OrderPrograms
    /\ phase = "scanned"
    /\ parser = [tokens |-> <<>>, current_id |-> 0]
    /\ statements = <<>>
    /\ locals = EmptyMap
    /\ interp = NoInterpreter
    /\ scanner = NoScanner
    /\ errors = <<>>

OrderSpec == OrderInit /\ [][Next]_vars


\* the lines each entry of OrderMenu prints before it ends or fails
OrderLines ==
    << <<<<"A">>, <<"B">>, <<"-", "1">>>>,
       <<<<>>, <<"A">>, <<"B">>, <<"b", "o", "d", "y">>, <<"1">>>>,
       <<<<"A">>, <<"B">>, <<"true">>>>,
       <<<<"o", "u", "t", "e", "r">>>>,
       <<<<"A">>, <<"o", "u", "t", "e", "r">>>>,
       <<<<"A">>, <<"B">>>>,
       <<<<"B">>>> >>

\* the runtime error each entry ends with, "" for none
OrderError ==
    <<"", "", "",
      "Unsupported types for binary operation",
      "Unsupported types for binary operation",
      "visit_call called with non function literal callee",
      "Expected arguments but got">>

RECURSIVE OrderOutput(_)
\* the lines of the driver d up to the end of its first failing entry
OrderOutput(d) ==
    IF d = <<>> THEN <<>>
    ELSE OrderLines[Head(d)]
         \o (IF OrderError[Head(d)] = "" THEN OrderOutput(Tail(d)) ELSE <<>>)

\* the entries of d that fail
OrderFailing(d) == {i \in DOMAIN d : OrderError[d[i]] # ""}

\* C24: the parts of an expression are evaluated from left to right: the
\* left operand of a binary or logical operator before the right one, the
\* callee of a call before its arguments and these in their order, all of
\* them before the checks that the callee can be called and of the number of
\* arguments; after a part that fails, no later part is evaluated
C24_LeftToRight ==
    source \in OrderPrograms =>
        LET d == DriverAfter(OrderPrelude, OrderMenu) IN
        /\ phase \notin {"parse_error", "resolve_error", "panic", "cut"}
        /\ IsPrefix(interp.out, OrderOutput(d))
        /\ phase = "done" => (OrderFailing(d) = {} /\ interp.out = OrderOutput(d))
        /\ phase = "runtime_error" =>
              /\ OrderFailing(d) # {}
              /\ interp.out = OrderOutput(d)
              /\ \E i \in OrderFailing(d) :
                    /\ \A j \in OrderFailing(d) : i <= j
                    /\ errors[1].msg = OrderError[d[i]]

\* k()(a(), b()) printed the line of k, of a, of b and of the body of g in
\* this order; then g(a(), e(), b()) ran a and e, and failed in e before b
C24_Witness ==
    /\ source = Program(OrderPrelude, OrderMenu, <<2, 5>>)
    /\ phase = "runtime_error"
    /\ interp.out = <<<<>>, <<"A">>, <<"B">>, <<"b", "o", "d", "y">>, <<"1">>,
                      <<"A">>, <<"o", "u", "t", "e", "r">>>>


(***************************************************************************)
(* What the resolver restores after a declaration.                         *)
(***************************************************************************)
\* the declarations need nothing in front of them
NestingPrelude == <<>>

\* a declaration in a function, method, initializer or block, followed by a
\* statement whose check depends on the kinds and scopes after it
NestingMenu ==
    << <<"class", "A", "{", "init", "(", ")", "{", "fun", "f", "(", ")",
         "{", "return", "1", ";", "}", "return", ";", "}", "}">>,
       <<"class", "A", "{", "init", "(", ")", "{", "fun", "f", "(", ")",
         "{", "return", "1", ";", "}", "return", "1", ";", "}", "}">>,
       <<"fun", "o", "(", ")", "{", "class", "B", "<", "K", "{", "m", "(",
         ")", "{", "return", "this", ";", "}", "}", "return", "2", ";", "}">>,
       <<"fun", "o", "(", ")", "{", "class", "C", "{", "m", "(", ")", "{",
         "}", "}", "return", "this", ";", "}">>,
       <<"class", "D", "{", "m", "(", ")", "{", "class", "E", "<", "D",
         "{", "n", "(", ")", "{", "}", "}", "return", "this", ";", "}", "}">>,
       <<"{", "fun", "p", "(", ")", "{", "}", "var", "p", ";", "}">>,
       <<"{", "class", "F", "{", "m", "(", ")", "{", "}", "}", "return",
         "1", ";", "}">> >>

NestingPrograms == ProgramsOf(NestingPrelude, NestingMenu)

NestingInit ==
    /\ source \in NestingPrograms
    /\ phase = "scanned"
    /\ parser = [tokens |-> <<>>, current_id |-> 0]
    /\ statements = <<>>
    /\ locals = EmptyMap
    /\ interp = NoInterpreter
    /\ scanner = NoScanner
    /\ errors = <<>>

NestingSpec == NestingInit /\ [][Next]_vars

\* the resolve error each entry of NestingMenu ends with, "" for none
NestingError ==
    <<"",
      "Cannot return a value from an initializer.",
      "",
      "Can't use 'this' outside of a class.",
      "",
      "Already a variable with this name in this scope.",
      "Cannot return from top-level code.">>

\* the entries of d that the resolver rejects
NestingFailing(d) == {i \in DOMAIN d : NestingError[d[i]] # ""}

\* the states a declaration can find the resolver in: every pair of kinds
\* and up to two open scopes
ResolverContexts ==
    {[Resolver_new EXCEPT !.current_function = f, !.current_class = c,
                          !.scopes = [i \in 1..n |-> EmptyMap]] :
        f \in {"None", "Function", "Initializer", "Method"},
        c \in {"None", "Class", "Subclass"},
        n \in 0..2}

\* the declarations among the nodes of the parsed program
Declarations ==
    {n \in {NodesOfAll(statements, FALSE)[i] :
               i \in DOMAIN NodesOfAll(statements, FALSE)} :
        n.type \in {"Function", "Class"}}

\* C25: when the resolver has finished a function or class declaration
\* without error, the kind of the current function, the kind of the current
\* class and the number of open scopes are what they were before it, at any
\* nesting; so a function in an initializer may return a value, and a
\* return of a value that follows it in the initializer is rejected again
C25_ResolverRestoresContext ==
    (source \in NestingPrograms /\ phase \notin {"scanned", "parse_error"}) =>
        LET d == DriverAfter(NestingPrelude, NestingMenu) IN
        /\ phase = "parsed" =>
              \A n \in Declarations : \A r \in ResolverContexts :
              Resolver_resolve_statement(r, n).ok =>
                 /\ Resolver_resolve_statement(r, n).r.current_function
                       = r.current_function
                 /\ Resolver_resolve_statement(r, n).r.current_class
                       = r.current_class
                 /\ Len(Resolver_resolve_statement(r, n).r.scopes) = Len(r.scopes)
        /\ phase = "resolve_error" =>
              \E i \in NestingFailing(d) :
                 /\ \A j \in NestingFailing(d) : i <= j
                 /\ errors[1].msg = NestingError[d[i]]
        /\ phase \notin {"parsed", "resolve_error"} => NestingFailing(d) = {}

\* the function in the initializer returned 1 and the initializer ended
\* with a plain return: accepted; the class in a method with this after it
\* too; the same initializer with return 1 after the function: rejected
C25_Witness ==
    /\ source = Program(NestingPrelude, NestingMenu, <<1, 5, 2>>)
    /\ phase = "resolve_error"
    /\ errors[1].msg = "Cannot return a value from an initializer."
    /\ \E n \in Declarations : \E r \in ResolverContexts :
          /\ n.type = "Class"
          /\ r.current_function = "Initializer"
          /\ Len(r.scopes) = 2
          /\ Resolver_resolve_statement(r, n).ok


(***************************************************************************)
(* for statements.                                                         *)
(***************************************************************************)
\* c prints A when the condition is evaluated, n prints B when the increment is
ForPrelude ==
    <<"var", "t", "=", "0", ";", "fun", "c", "(", "l", ")", "{", "print",
      "\"A\"", ";", "return", "t", "<", "l", ";", "}", "fun", "n", "(",
      ")", "{", "print", "\"B\"", ";", "t", "=", "t", "+", "1", ";", "}">>

ForPreludeLength == Len(parse(scan_tokens(ForPrelude)).n)

\* for statements with all clauses, with clauses left out, with a variable of the
\* same name in the body and around the loop; and a while loop written by hand
ForMenu ==
    << <<"for", "(", "var", "i", "=", "0", ";", "i", "<", "2", ";", "i",
         "=", "i", "+", "1", ")", "print", "i", ";">>,
       <<"for", "(", "t", "=", "0", ";", "c", "(", "2", ")", ";", "n", "(",
         ")", ")", "print", "t", ";">>,
       <<"for", "(", ";", ";", "n", "(", ")", ")", "print", "7", ";">>,
       <<"for", "(", "var", "i", "=", "0", ";", ";", ")", "{", "print",
         "i", ";", "}">>,
       <<"for", "(", "var", "i", "=", "5", ";", "i", "<", "7", ";", "i",
         "=", "i", "+", "2", ")", "{", "var", "i", "=", "1", ";", "print",
         "i", ";", "}">>,
       <<"{", "var", "i", "=", "3", ";", "for", "(", "var", "i", "=", "0",
         ";", "i", "<", "1", ";", "i", "=", "i", "+", "1", ")", "print",
         "i", ";", "print", "i", ";", "}">>,
       <<"{", "var", "i", "=", "0", ";", "while", "(", "i", "<", "1", ")",
         "{", "print", "i", ";", "i", "=", "i", "+", "1", ";", "}", "}">> >>

ForPrograms == ProgramsOf(ForPrelude, ForMenu)

ForInit ==
    /\ source \in ForPrograms
    /\ phase = "scanned"
    /\ parser = [tokens |-> <<>>, current_id |-> 0]
    /\ statements = <<>>
    /\ locals = EmptyMap
    /\ interp = NoInterpreter
    /\ scanner = NoScanner
    /\ errors = <<>>

ForSpec == ForInit /\ [][Next]_vars


\* the lines each entry of ForMenu prints
ForLines ==
    << <<<<"0">>, <<"1">>>>,
       <<<<"A">>, <<"0">>, <<"B">>, <<"A">>, <<"1">>, <<"B">>, <<"A">>>>,
       <<>>,
       <<>>,
       <<<<"1">>>>,
       <<<<"0">>, <<"3">>>>,
       <<<<"0">>>> >>

RECURSIVE ForOutput(_)
\* the lines the driver d prints
ForOutput(d) ==
    IF d = <<>> THEN <<>> ELSE ForLines[Head(d)] \o ForOutput(Tail(d))

\* Block[initializer, While(condition, Block[body, ExpressionStmt(increment)])]
ForShape(n) ==
    /\ n.type = "Block"
    /\ Len(n.statements) = 2
    /\ n.statements[2].type = "While"
    /\ n.statements[2].body.type = "Block"
    /\ Len(n.statements[2].body.statements) = 2
    /\ n.statements[2].body.statements[2].type = "Expression"

\* the places of the lexeme word in the source
LexemesOf(word) == {i \in DOMAIN source : source[i] = word}

\* the nodes of the parsed program that satisfy Is
NodesThat(Is(_)) ==
    Let(NodesOfAll(statements, FALSE), LAMBDA nodes :
        {nodes[i] : i \in {j \in DOMAIN nodes : Is(nodes[j])}})

\* the statement that the first entry of the driver was parsed to
FirstEntry == statements[ForPreludeLength + 1]

\* C26: for (init; cond; incr) body is parsed to a block of init and a while
\* loop on cond whose body is a block of body and the expression statement
\* incr, and to no node of another kind: there are as many such blocks as
\* for lexemes (and loops of this shape written by hand), and no loop
\* besides them; so the variable of init is not seen after the loop, cond is
\* evaluated before every turn and incr after the body
C26_ForIsDesugared ==
    source \in ForPrograms =>
        /\ ~Failed
        /\ phase = "parsed" =>
              /\ Cardinality(NodesThat(ForShape))
                    = Cardinality(LexemesOf("for")) + Cardinality(LexemesOf("while"))
              /\ Cardinality(NodesThat(LAMBDA n : n.type = "While"))
                    = Cardinality(NodesThat(ForShape))
              /\ NodesThat(LAMBDA n : n.type \notin
                              {"Block", "Expression", "Function", "Print",
                               "Return", "Var", "While", "Assign", "Binary",
                               "Call", "Literal", "Variable"}) = {}
        /\ IsPrefix(interp.out, ForOutput(DriverAfter(ForPrelude, ForMenu)))
        /\ phase = "done" =>
              interp.out = ForOutput(DriverAfter(ForPrelude, ForMenu))

\* for (var i = 0; i < 2; i = i + 1) print i; is the block of var i = 0 and
\* while (i < 2) { print i; i = i + 1; }; and the loop with c and n ran
\* condition, body, increment in turn until the condition was false
C26_Witness ==
    /\ source = Program(ForPrelude, ForMenu, <<1, 2>>)
    /\ phase = "done"
    /\ ForShape(FirstEntry)
    /\ FirstEntry.statements[1].type = "Var"
    /\ FirstEntry.statements[2].condition.operator.token_type = "Less"
    /\ FirstEntry.statements[2].body.statements[1].type = "Print"
    /\ FirstEntry.statements[2].body.statements[2].expression.type = "Assign"
    /\ interp.out = <<<<"0">>, <<"1">>, <<"A">>, <<"0">>, <<"B">>, <<"A">>,
                      <<"1">>, <<"B">>, <<"A">>>>

\* the entries of ForMenu whose for statement has no condition
ForWithoutCondition == {3, 4}

\* the loops whose condition is the literal nil
NilLoops == NodesThat(LAMBDA n : n.type = "While" /\ is_literal_nil(n.condition))

\* C27: a for statement without condition is a while loop whose condition is
\* the literal nil; nil is falsy, so the loop is entered and left at once:
\* its body and its increment are never executed
C27_ForWithoutConditionNeverRuns ==
    (source \in ForPrograms /\ phase # "scanned") =>
        /\ Cardinality(NilLoops)
              = Cardinality({i \in DOMAIN DriverAfter(ForPrelude, ForMenu) :
                                DriverAfter(ForPrelude, ForMenu)[i]
                                   \in ForWithoutCondition})
        /\ \A loop \in NilLoops : \A j \in 1..Len(interp.trace) :
              interp.trace[j] # loop.body.id
        /\ phase # "cut"

\* for (;; n()) print 7; and for (var i = 0;;) { print i; } were executed:
\* both loops were entered and nothing was printed
C27_Witness ==
    /\ source = Program(ForPrelude, ForMenu, <<3, 4>>)
    /\ phase = "done"
    /\ interp.out = <<>>
    /\ \A loop \in NilLoops : \E j \in 1..Len(interp.trace) :
          interp.trace[j] = loop.id
    /\ Cardinality(NilLoops) = 2


(***************************************************************************)
(* The stack of environments around blocks and calls.                      *)
(***************************************************************************)
\* f and the methods of P end normally, with a return or with a runtime error,
\* inside blocks
BalancePrelude ==
    <<"class", "P", "{", "init", "(", "v", ")", "{", "this", ".", "v", "=",
      "v", ";", "{", "if", "(", "v", "==", "0", ")", "return", ";", "if",
      "(", "v", "==", "1", ")", "nil", "+", "1", ";", "}", "}", "m", "(",
      ")", "{", "{", "return", "this", ".", "v", ";", "}", "}", "}", "fun",
      "f", "(", "n", ")", "{", "{", "{", "if", "(", "n", "==", "0", ")",
      "return", "1", ";", "}", "if", "(", "n", "==", "1", ")", "{", "nil",
      "+", "1", ";", "}", "}", "}">>

BalancePreludeLength == Len(parse(scan_tokens(BalancePrelude)).n)

\* blocks and calls of functions, methods and classes that end in each way
BalanceMenu ==
    << <<"{", "var", "a", "=", "1", ";", "{", "print", "a", ";", "}", "}">>,
       <<"print", "f", "(", "0", ")", ";">>,
       <<"print", "f", "(", "2", ")", ";">>,
       <<"f", "(", "1", ")", ";">>,
       <<"print", "P", "(", "2", ")", ".", "m", "(", ")", ";">>,
       <<"P", "(", "1", ")", ";">>,
       <<"{", "{", "nil", "+", "1", ";", "}", "}">>,
       <<"print", "P", "(", "0", ")", ".", "v", ";">> >>

BalancePrograms == ProgramsOf(BalancePrelude, BalanceMenu)

BalanceInit ==
    /\ source \in BalancePrograms
    /\ phase = "scanned"
    /\ parser = [tokens |-> <<>>, current_id |-> 0]
    /\ statements = <<>>
    /\ locals = EmptyMap
    /\ interp = NoInterpreter
    /\ scanner = NoScanner
    /\ errors = <<>>

BalanceSpec == BalanceInit /\ [][Next]_vars

\* the lines each entry of BalanceMenu prints
BalanceLines ==
    << <<<<"1">>>>, <<<<"1">>>>, <<<<"nil">>>>, <<>>, <<<<"2">>>>, <<>>, <<>>,
       <<<<"0">>>> >>

\* the entries of BalanceMenu that end with a runtime error
BalanceErrors == {4, 6, 7}

RECURSIVE BalanceOutput(_)
\* the lines of the driver d up to its first failing entry
BalanceOutput(d) ==
    IF d = <<>> THEN <<>>
    ELSE BalanceLines[Head(d)]
         \o (IF Head(d) \in BalanceErrors THEN <<>> ELSE BalanceOutput(Tail(d)))

\* C28: the stack of environments is balanced: after a block and after a
\* call of a function, a method or a class, ended normally, by a return or
\* by a runtime error, the stack is the one before it; so between the
\* statements of the program and after a runtime error it holds the global
\* environment only
C28_StackIsBalanced ==
    source \in BalancePrograms =>
        /\ phase \notin {"parse_error", "resolve_error", "panic", "cut"}
        /\ phase \in {"running", "done", "runtime_error"} =>
              /\ interp.stack = Interpreter_new(locals).stack
              /\ IsPrefix(interp.out,
                          BalanceOutput(DriverAfter(BalancePrelude, BalanceMenu)))
        /\ phase = "runtime_error" =>
              \E i \in DOMAIN DriverAfter(BalancePrelude, BalanceMenu) :
                 DriverAfter(BalancePrelude, BalanceMenu)[i] \in BalanceErrors

\* f(0) returned through two blocks, P(2).m() through one, and f(1) failed
\* in a block in a block in the call: the stack is the one of the start
C28_Witness ==
    /\ source = Program(BalancePrelude, BalanceMenu, <<2, 5, 4>>)
    /\ phase = "runtime_error"
    /\ interp.out = <<<<"1">>, <<"2">>>>
    /\ interp.stack = Interpreter_new(locals).stack
    /\ Len(interp.stack) = 1


(***************************************************************************)
(* The parser on token sequences of any form.                              *)
(***************************************************************************)
\* the longest sequence of lexemes put after a prefix
MaxTokens == 4

\* beginnings that put the parser into each of its loops: the statements of
\* the program, the parameters of a function and of a method, the
\* arguments of a call, the statements of a block and of a function body
TokenPrefixes ==
    { <<>>,
      <<"fun", "a", "(">>,
      <<"class", "a", "{", "a", "(">>,
      <<"a", "(">>,
      <<"{">>,
      <<"fun", "a", "(", ")", "{">> }

\* the lexemes that follow, in any order
TokenAlphabet == {"a", ",", "(", ")", "}", ";"}

\* the most left parentheses among them: every one is a level of the
\* recursive descent, which the evaluation of parse follows operator by
\* operator
MaxNesting == 1

TokenPrograms ==
    {prefix \o rest :
        prefix \in TokenPrefixes,
        rest \in {r \in UNION {[1..n -> TokenAlphabet] : n \in 0..MaxTokens} :
                    Cardinality({i \in DOMAIN r : r[i] = "("}) <= MaxNesting}}

TokenInit ==
    /\ source \in TokenPrograms
    /\ phase = "scanned"
    /\ parser = [tokens |-> <<>>, current_id |-> 0]
    /\ statements = <<>>
    /\ locals = EmptyMap
    /\ interp = NoInterpreter
    /\ scanner = NoScanner
    /\ errors = <<>>

TokenSpec == TokenInit /\ [][Next]_vars

\* the tokens a node holds
NodeTokens(n) ==
    CASE n.type \in {"Assign", "Get", "Set", "Variable", "Var", "Class"} -> {n.name}
      [] n.type = "Function" -> {n.name} \cup {n.params[i] : i \in DOMAIN n.params}
      [] n.type \in {"Binary", "Logical", "Unary"} -> {n.operator}
      [] n.type \in {"This", "Super"} -> {n.keyword}
      [] OTHER -> {}

\* a parser that has the tokens of the source from place i on in front of it
ParserAt(i) ==
    [tokens |-> SubSeq(scan_tokens(source), i, Len(source) + 1), current_id |-> 0]

\* the result a has fewer tokens left than p had, or is an error
Progress(p, a) == a.ok => Len(a.p.tokens) < Len(p.tokens)

UnboundPrelude ==
    <<"class", "K", "{", "}", "var", "g", "=", "1", ";">>

UnboundPreludeLength == Len(parse(scan_tokens(UnboundPrelude)).n)

\* assignments to a name no environment binds, from the top level, a block and a
\* function; an assignment to the global; an assignment from a method of a
\* subclass to a variable of the block around the class, whose resolved
\* distance ends at the global environment; the same through two subclasses,
\* where it ends beyond it
UnboundMenu ==
    << <<"u", "=", "2", ";">>,
       <<"{", "var", "a", "=", "1", ";", "u", "=", "a", ";", "}">>,
       <<"{", "fun", "f", "(", ")", "{", "u", "=", "3", ";", "}", "f", "(",
         ")", ";", "}">>,
       <<"print", "g", "=", "g", "+", "1", ";">>,
       <<"{", "var", "a", "=", "1", ";", "class", "B", "<", "K", "{", "m",
         "(", ")", "{", "a", "=", "5", ";", "}", "}", "B", "(", ")", ".",
         "m", "(", ")", ";", "}">>,
       <<"{", "var", "a", "=", "1", ";", "class", "A", "<", "K", "{", "m",
         "(", ")", "{", "class", "B", "<", "K", "{", "n", "(", ")", "{",
         "a", "=", "2", ";", "}", "}", "B", "(", ")", ".", "n", "(", ")",
         ";", "}", "}", "A", "(", ")", ".", "m", "(", ")", ";", "}">> >>

UnboundPrograms == ProgramsOf(UnboundPrelude, UnboundMenu)

UnboundInit ==
    /\ source \in UnboundPrograms
    /\ phase = "scanned"
    /\ parser = [tokens |-> <<>>, current_id |-> 0]
    /\ statements = <<>>
    /\ locals = EmptyMap
    /\ interp = NoInterpreter
    /\ scanner = NoScanner
    /\ errors = <<>>

UnboundSpec == UnboundInit /\ [][Next]_vars


\* the name each entry of UnboundMenu assigns to without finding it bound
\* in the environment the assignment goes to, "" where it is bound or where
\* there is no such environment
UnboundName == <<"u", "u", "u", "", "a", "">>

\* the entry of UnboundMenu that interpret is about to execute
UnboundEntry ==
    DriverAfter(UnboundPrelude, UnboundMenu)[Current.pc - UnboundPreludeLength]

\* C30: an assignment to a name that is not bound in the environment it
\* goes to (the one at the resolved distance, the global one when the
\* target is not resolved) is the runtime error Undefined variable and
\* leaves every environment as it was; no assignment, failing or not, adds
\* a name to an environment
C30_AssignmentNeverDefines ==
    [][(/\ source \in UnboundPrograms
        /\ phase \in {"resolved", "running"}
        /\ Current.pc > UnboundPreludeLength
        /\ Current.pc <= Len(statements)) =>
          /\ \A e \in DOMAIN Current.envs :
                DOMAIN interp'.envs[e].values = DOMAIN Current.envs[e].values
          /\ (UnboundName[UnboundEntry] # "") <=> (phase' = "runtime_error")
          /\ phase' = "runtime_error" =>
                /\ errors' = <<[msg |-> "Undefined variable",
                                args |-> <<UnboundName[UnboundEntry]>>]>>
                /\ \A e \in DOMAIN Current.envs : interp'.envs[e] = Current.envs[e]
          /\ phase' \in {"running", "runtime_error", "panic"}
          /\ phase' = "panic" => UnboundEntry = 6]_vars

\* g = g + 1 wrote the global g; then a = 5 in the method of B went to the
\* global environment, which has no a: the error, and g still 2 and no a
C30_Witness ==
    /\ source = Program(UnboundPrelude, UnboundMenu, <<4, 5>>)
    /\ phase = "runtime_error"
    /\ errors = <<[msg |-> "Undefined variable", args |-> <<"a">>]>>
    /\ DOMAIN Globals(interp) = {"clock", "K", "g"}
    /\ Globals(interp)["g"] = Number(2)

=============================================================================
